---- MODULE Spec2Model ----
(***************************************************************************)
(* A model of the memcache-backed entity cache of simian's                  *)
(* src/simian/mac/models/base.py: BaseModel.MemcacheWrappedGet / Set /      *)
(* Delete over the datastore and memcache, and the deferred auto-update     *)
(* task list of BaseModel.MemcacheAddAutoUpdateTask / MemcacheAutoUpdate.   *)
(*                                                                          *)
(* The entity type is FirstClientConnection, a BaseModel subclass whose     *)
(* declared properties used here are two of its StringProperty fields.      *)
(* Further specifications over the same variables model one Set racing one  *)
(* Get (SpecRace), KeyValueCache.IpInList (SpecIp), the tag-name cache of   *)
(* Tag (SpecTag), MemcacheWrappedGetAllFilter (SpecFilter), the drain of a   *)
(* task list that holds a write-through task (SpecDrain), the lost/stolen   *)
(* UUID dictionary of ComputerLostStolen (SpecLost), two Sets racing each  *)
(* other (SpecSets), the task list as an attribute looked up through the    *)
(* class hierarchy (SpecTypes) and the field-level cache keys of            *)
(* AppleSUSProduct (SpecKeys).                                              *)
(***************************************************************************)
EXTENDS Naturals, Sequences, FiniteSets, TLC

VARIABLES
  store,      \* datastore: key name -> entity, or NoneV when there is no record
  cache,      \* memcache: cache key -> payload entry, or Absent
  tasks,      \* cls._memcache_auto_update_tasks: sequence of (func, args)
  scheduled,  \* number of deferred.defer(cls.MemcacheAutoUpdate, ...) calls made
  executed,   \* number of deferred drains the task queue has run
  wtasks,     \* number of put() calls made while a task was registered
  lastDrain,  \* what the last deferred drain did
  last,       \* the last call made to the model class and what it returned
  procs       \* calls in progress in concurrent processes: each one's position
              \* and local variables

vars ==
  <<store, cache, tasks, scheduled, executed, wtasks, lastDrain, last, procs>>

----------------------------------------------------------------------------
(* Bounds and program constants *)

MEMCACHE_SECS == 300
OtherSecs == 60
MaxRecorrupt == 2
MaxTasks == 5
MaxWrites == 2

KIND == "FirstClientConnection"
KeyNames == {"k1"}
DeclaredProps == {"owner", "hostname"}
\* The key name of the KeyValueCache entity that holds a list of IP blocks.
IpListKey == "auth_bad_ip_blocks"
\* Key names of AppleSUSProduct entities, a class with the properties
\* apple_mtime and mtime.
ProductKeys == {"p1", "p1_apple"}
ProductProps == {"apple_mtime", "mtime"}
\* cls.kind(): the class each key name is used with.
KindOf(key_name) ==
  IF key_name = IpListKey THEN "KeyValueCache"
  ELSE IF key_name \in ProductKeys THEN "AppleSUSProduct" ELSE KIND
\* The declared properties of the class a key name is used with that are
\* modelled.
PropsOf(key_name) ==
  IF key_name = IpListKey THEN {"text_value"}
  ELSE IF key_name \in ProductKeys THEN ProductProps ELSE DeclaredProps
UndeclaredProps == {"nickname"}
NoProp == ""
PropNames == DeclaredProps \cup UndeclaredProps
Strings == {"a"}
Ttls == {MEMCACHE_SECS, OtherSecs}

----------------------------------------------------------------------------
(* Python values *)

NoneV == [kind |-> "None"]
Str(v) == [kind |-> "str", v |-> v]
Values == {NoneV} \cup {Str(v) : v \in Strings}

\* An instance of the model class: key name and declared property values.
EntityOf(key_name, props) == [kind |-> "entity", key |-> key_name, props |-> props]
\* cls(key_name=...): every declared property at its default, None.
NewEntity(key_name) == EntityOf(key_name, [p \in PropsOf(key_name) |-> NoneV])
Entities == {EntityOf(k, pr) : k \in KeyNames, pr \in [DeclaredProps -> Values]}

\* db.model_to_protobuf(entity).SerializeToString()
Encode(entity) == [kind |-> "pb", key |-> entity.key, props |-> entity.props]
\* A payload db.model_from_protobuf() cannot decode.
Garbage == [kind |-> "garbage"]
Decodable(payload) == payload.kind = "pb"
\* db.model_from_protobuf(cached), defined on decodable payloads.
Decode(payload) == EntityOf(payload.key, payload.props)

----------------------------------------------------------------------------
(* Cache keys and the memcache client *)

EntityKey(key_name) == "mwg_" \o KindOf(key_name) \o "_" \o key_name
FieldKey(key_name, prop_name) ==
  "mwgpn_" \o KindOf(key_name) \o "_" \o key_name \o "_" \o prop_name
\* The entity-level key whether or not a property is named.
MemcacheKey_EntityOnly(key_name, prop_name) == EntityKey(key_name)
MemcacheKey(key_name, prop_name) ==
  IF prop_name # NoProp THEN FieldKey(key_name, prop_name) ELSE EntityKey(key_name)

CacheKeys == {EntityKey(k) : k \in KeyNames}
             \cup {FieldKey(k, p) : k \in KeyNames, p \in PropNames}

Absent == [kind |-> "absent"]
Entry(payload) == [kind |-> "entry", payload |-> payload]

\* memcache.get(key): None on a miss (and for a stored None).
MemcacheGet(c, mk) == IF c[mk] = Absent THEN NoneV ELSE c[mk].payload
\* memcache.set(key, value, time), when the client accepts the value.
MemcacheSet(c, mk, payload) == [c EXCEPT ![mk] = Entry(payload)]
\* A delete that leaves the entry in place.
MemcacheDelete_Noop(c, mk) == c
\* Whether memcache.set raises ValueError for the payload: accept is what the
\* client decides for a payload that can be over its size limit; a bare None
\* never is.
MemcacheRefuses(payload, accept) == ~accept /\ payload # NoneV

\* memcache.delete(key)
MemcacheDelete(c, mk) == [c EXCEPT ![mk] = Absent]

\* cls.get_by_key_name(key_name)
GetByKeyName(s, key_name) == s[key_name]

----------------------------------------------------------------------------
(* BaseModel.MemcacheWrappedGet *)

\* The result of one call: return value, exception raised ("none" when it
\* returned), the cache on return, and counts of what the call did.
Result(ret, exc, c, reads, decodes, fails, refused, recorrupted, wrote) ==
  [ret |-> ret, exc |-> exc, cache |-> c, reads |-> reads, decodes |-> decodes,
   fails |-> fails, refused |-> refused, recorrupted |-> recorrupted,
   wrote |-> wrote, calls |-> <<>>]

\* One call made to memcache or to the datastore: the function and the cache
\* key or key name it was given.
CallTo(fn, key) == [fn |-> fn, key |-> key]
\* The result r of the rest of a call, after the calls in made.
After(made, r) == [r EXCEPT !.calls = made \o @]

\* One accepted memcache.set(key, value, time) call.
Write(mk, payload, secs) == [mk |-> mk, payload |-> payload, ttl |-> secs]

\* The cache-miss branch without its memcache.set.
GetMiss_NoPopulate(c, s, key_name, prop_name, memcache_secs, accept) ==
  LET entity == GetByKeyName(s, key_name)
  IN  IF entity = NoneV
        THEN Result(NoneV, "none", c, 1, 0, 0, FALSE, FALSE, {})
      ELSE IF prop_name # NoProp /\ prop_name \notin DOMAIN entity.props
        THEN Result(NoneV, "none", c, 1, 0, 0, FALSE, FALSE, {})
      ELSE Result(IF prop_name # NoProp THEN entity.props[prop_name] ELSE entity,
                  "none", c, 1, 0, 0, FALSE, FALSE, {})

\* A cache-miss branch that caches None when there is no entity.
GetMiss_CacheNone(c, s, key_name, prop_name, memcache_secs, accept) ==
  LET r == GetMiss_NoPopulate(c, s, key_name, prop_name, memcache_secs, accept)
      mk == MemcacheKey(key_name, prop_name)
  IN  IF GetByKeyName(s, key_name) = NoneV
        THEN [r EXCEPT !.cache = MemcacheSet(c, mk, NoneV),
                       !.wrote = {Write(mk, NoneV, memcache_secs)}]
        ELSE [r EXCEPT !.cache = MemcacheSet(c, mk, r.ret)]

\* A cache-miss branch that lets the AttributeError of getattr out.
GetMiss_RaiseMissing(c, s, key_name, prop_name, memcache_secs, accept) ==
  LET r == GetMiss_NoPopulate(c, s, key_name, prop_name, memcache_secs, accept)
      entity == GetByKeyName(s, key_name)
  IN  IF entity # NoneV /\ prop_name # NoProp /\ prop_name \notin DOMAIN entity.props
        THEN [r EXCEPT !.exc = "AttributeError"]
        ELSE [r EXCEPT !.cache = MemcacheSet(c, MemcacheKey(key_name, prop_name),
                                             IF prop_name # NoProp \/ entity = NoneV
                                               THEN r.ret ELSE Encode(entity))]

\* The cache-miss branch: read the datastore, cache what was read.
\* accept is whether memcache.set takes the value (FALSE: it raises ValueError,
\* which this branch logs and swallows).
GetMiss(c, s, key_name, prop_name, memcache_secs, accept) ==
  LET mk == MemcacheKey(key_name, prop_name)
      entity == GetByKeyName(s, key_name)
  IN  After(<<CallTo("get_by_key_name", key_name)>>,
      IF entity = NoneV
        THEN Result(NoneV, "none", c, 1, 0, 0, FALSE, FALSE, {})
      ELSE IF prop_name # NoProp /\ prop_name \notin DOMAIN entity.props
        THEN Result(NoneV, "none", c, 1, 0, 0, FALSE, FALSE, {})
      ELSE LET output == IF prop_name # NoProp THEN entity.props[prop_name]
                                               ELSE entity
               to_cache == IF prop_name # NoProp THEN output ELSE Encode(entity)
           IN  After(<<CallTo("memcache.set", mk)>>,
               IF ~MemcacheRefuses(to_cache, accept)
                 THEN Result(output, "none", MemcacheSet(c, mk, to_cache),
                             1, 0, 0, FALSE, FALSE,
                             {Write(mk, to_cache, memcache_secs)})
                 ELSE Result(output, "none", c, 1, 0, 0, TRUE, FALSE, {})))

\* A fallback that caches what it read, as the cache-miss branch does.
GetFallback_Populate(c, s, key_name, prop_name, memcache_secs, accept) ==
  [GetMiss(c, s, key_name, prop_name, memcache_secs, accept) EXCEPT
     !.decodes = 1, !.fails = 1]

\* The return of a retry whose decode failed too, after its memcache.delete:
\* return cls.get_by_key_name(key_name), with no memcache.set.
GetFallback(c, s, key_name, prop_name, memcache_secs, accept) ==
  After(<<CallTo("get_by_key_name", key_name)>>,
        Result(GetByKeyName(s, key_name), "none", c, 1, 1, 1, FALSE, FALSE, {}))

RECURSIVE MemcacheWrappedGet(_, _, _, _, _, _, _)

\* A second attempt that does not say it is one.
GetRetry_NoFlag(c, s, key_name, prop_name, memcache_secs, env) ==
  MemcacheWrappedGet(c, s, key_name, prop_name, memcache_secs, FALSE, env)

\* The second attempt made after a failed decode: the same call with retry=True.
GetRetry(c, s, key_name, prop_name, memcache_secs, env) ==
  MemcacheWrappedGet(c, s, key_name, prop_name, memcache_secs, TRUE, env)

\* env.accept: whether memcache.set takes the value; env.recorrupt: how many
\* times another process stores an undecodable payload under the key again
\* after this call has deleted it.
MemcacheWrappedGet(c, s, key_name, prop_name, memcache_secs, retry, env) ==
  LET mk == MemcacheKey(key_name, prop_name)
      cached == MemcacheGet(c, mk)
  IN  After(<<CallTo("memcache.get", mk)>>,
      IF cached = NoneV
        THEN GetMiss(c, s, key_name, prop_name, memcache_secs, env.accept)
      ELSE IF prop_name # NoProp
        THEN Result(cached, "none", c, 1, 0, 0, FALSE, FALSE, {})
      ELSE IF Decodable(cached)
        THEN Result(Decode(cached), "none", c, 1, 1, 0, FALSE, FALSE, {})
      ELSE LET c1 == MemcacheDelete(c, mk)
           IN  After(<<CallTo("memcache.delete", mk)>>,
               IF ~retry
                 THEN LET again == env.recorrupt > 0
                          c2 == IF again THEN MemcacheSet(c1, mk, Garbage) ELSE c1
                          env2 == [env EXCEPT !.recorrupt =
                                     IF again THEN @ - 1 ELSE @]
                          r == GetRetry(c2, s, key_name, prop_name,
                                        memcache_secs, env2)
                      IN  [r EXCEPT !.reads = @ + 1, !.decodes = @ + 1,
                                    !.fails = @ + 1,
                                    !.recorrupted = again]
                 ELSE GetFallback(c1, s, key_name, prop_name, memcache_secs,
                                  env.accept)))

----------------------------------------------------------------------------
(* BaseModel.put and the auto-update task list *)

\* One registered task: the name of a class method with its positional and
\* keyword arguments, as appended by MemcacheAddAutoUpdateTask.
Task(func, args, kwargs) == [func |-> func, args |-> args, kwargs |-> kwargs]
\* Keyword arguments are a set of (name, value) pairs; this is none.
NoKwargs == {}

\* A MemcacheAutoUpdate() that defers a drain whether or not a task is registered.
AutoUpdateSchedule_Always(tl, nsched) == nsched + 1

\* MemcacheAutoUpdate() as put() calls it, _deferred=False: with no task
\* registered it returns, otherwise it defers one drain.  Returns the number
\* of deferred.defer calls made so far.
AutoUpdateSchedule(tl, nsched) == IF tl = <<>> THEN nsched ELSE nsched + 1

\* A put that writes nothing.
DbPut_Skip(s, entity) == s
\* The datastore write of db.Model.put().
DbPut(s, entity) == [s EXCEPT ![entity.key] = entity]

\* BaseModel.put(): the datastore put, then MemcacheAutoUpdate().  fails is
\* whether the datastore put raises; then nothing is written or scheduled.
BaseModelPut(s, tl, nsched, entity, fails) ==
  IF fails
    THEN [exc |-> "StoreError", store |-> s, scheduled |-> nsched]
    ELSE [exc |-> "none", store |-> DbPut(s, entity),
          scheduled |-> AutoUpdateSchedule(tl, nsched)]

----------------------------------------------------------------------------
(* BaseModel.MemcacheWrappedSet *)

\* cls.get_or_insert(key_name): the stored entity, created with default
\* property values when there is none.
GetOrInsert(s, key_name) ==
  IF s[key_name] = NoneV THEN [s EXCEPT ![key_name] = NewEntity(key_name)] ELSE s

\* setattr(entity, prop_name, value): a declared property takes the value; any
\* other name becomes a plain attribute of the instance, which is not part of
\* what put() stores or model_to_protobuf() encodes.
SetAttr(entity, prop_name, value) ==
  IF prop_name \in DOMAIN entity.props
    THEN [entity EXCEPT !.props[prop_name] = value]
    ELSE entity

SetResult(exc, c, s, nsched, refused, wrote) ==
  [ret |-> NoneV, exc |-> exc, cache |-> c, store |-> s, scheduled |-> nsched,
   reads |-> 0, decodes |-> 0, fails |-> 0, refused |-> refused,
   recorrupted |-> FALSE, wrote |-> wrote, calls |-> <<>>]

\* The entity-level entry stored with the default MEMCACHE_SECS instead of
\* memcache_secs.
SetCaches_DefaultTtl(c, s, nsched, key_name, prop_name, value, entity, memcache_secs, accept1, accept2) ==
  LET c1 == MemcacheSet(c, FieldKey(key_name, prop_name), value)
      w1 == Write(FieldKey(key_name, prop_name), value, memcache_secs)
      c2 == MemcacheSet(c1, EntityKey(key_name), Encode(entity))
      w2 == Write(EntityKey(key_name), Encode(entity), MEMCACHE_SECS)
  IN  After(<<CallTo("memcache.set", FieldKey(key_name, prop_name))>>,
      IF MemcacheRefuses(value, accept1)
        THEN SetResult("ValueError", c, s, nsched, TRUE, {})
      ELSE After(<<CallTo("memcache.set", EntityKey(key_name))>>,
           IF MemcacheRefuses(Encode(entity), accept2)
             THEN SetResult("ValueError", c1, s, nsched, TRUE, {w1})
             ELSE SetResult("none", c2, s, nsched, FALSE, {w1, w2})))

\* The two memcache.set calls that end MemcacheWrappedSet.  accept1 and
\* accept2: whether memcache.set takes the field value and the encoded
\* entity; a refusal is a ValueError, which nothing here catches.
SetCaches(c, s, nsched, key_name, prop_name, value, entity, memcache_secs, accept1, accept2) ==
  LET memcache_entity_key == EntityKey(key_name)
      memcache_key == FieldKey(key_name, prop_name)
      entity_protobuf == Encode(entity)
      c1 == MemcacheSet(c, memcache_key, value)
      w1 == Write(memcache_key, value, memcache_secs)
      c2 == MemcacheSet(c1, memcache_entity_key, entity_protobuf)
      w2 == Write(memcache_entity_key, entity_protobuf, memcache_secs)
  IN  After(<<CallTo("memcache.set", FieldKey(key_name, prop_name))>>,
      IF MemcacheRefuses(value, accept1)
        THEN SetResult("ValueError", c, s, nsched, TRUE, {})
      ELSE After(<<CallTo("memcache.set", EntityKey(key_name))>>,
           IF MemcacheRefuses(Encode(entity), accept2)
             THEN SetResult("ValueError", c1, s, nsched, TRUE, {w1})
             ELSE SetResult("none", c2, s, nsched, FALSE, {w1, w2})))

\* A Set that fills the cache before it calls put().
MemcacheWrappedSet_WriteBehind(c, s, tl, nsched, key_name, prop_name, value, memcache_secs, env) ==
  IF env.fault = "insert" THEN SetResult("StoreError", c, s, nsched, FALSE, {})
  ELSE LET s1 == GetOrInsert(s, key_name)
           entity == SetAttr(s1[key_name], prop_name, value)
           w == SetCaches(c, s1, nsched, key_name, prop_name, value, entity,
                          memcache_secs, env.accept1, env.accept2)
           p == BaseModelPut(s1, tl, nsched, entity, env.fault = "put")
       IN  IF w.exc # "none" THEN w
           ELSE IF p.exc # "none"
             THEN SetResult(p.exc, w.cache, p.store, p.scheduled, FALSE, {})
             ELSE SetResult("none", w.cache, p.store, p.scheduled, FALSE, w.wrote)

\* A Set that encodes the entity for the cache before setattr.
MemcacheWrappedSet_StaleEncode(c, s, tl, nsched, key_name, prop_name, value, memcache_secs, env) ==
  IF env.fault = "insert" THEN SetResult("StoreError", c, s, nsched, FALSE, {})
  ELSE LET s1 == GetOrInsert(s, key_name)
           entity == SetAttr(s1[key_name], prop_name, value)
           p == BaseModelPut(s1, tl, nsched, entity, env.fault = "put")
       IN  IF p.exc # "none"
             THEN SetResult(p.exc, c, p.store, p.scheduled, FALSE, {})
             ELSE SetCaches(c, p.store, p.scheduled, key_name, prop_name, value,
                            s1[key_name], memcache_secs, env.accept1, env.accept2)

\* env.fault: which datastore call raises ("none", "insert" for
\* get_or_insert, "put" for entity.put()); env.accept1, env.accept2: as in
\* SetCaches.
MemcacheWrappedSet(c, s, tl, nsched, key_name, prop_name, value, memcache_secs, env) ==
  After(<<CallTo("get_or_insert", key_name)>>,
  IF env.fault = "insert" THEN SetResult("StoreError", c, s, nsched, FALSE, {})
  ELSE LET s1 == GetOrInsert(s, key_name)
           entity == SetAttr(s1[key_name], prop_name, value)
           p == BaseModelPut(s1, tl, nsched, entity, env.fault = "put")
       IN  After(<<CallTo("put", key_name)>>,
           IF p.exc # "none"
             THEN SetResult(p.exc, c, p.store, p.scheduled, FALSE, {})
             ELSE SetCaches(c, p.store, p.scheduled, key_name, prop_name, value,
                            entity, memcache_secs, env.accept1, env.accept2)))

----------------------------------------------------------------------------
(* BaseModel.MemcacheWrappedDelete *)

NoKey == ""

DeleteResult(exc, c, s) ==
  [ret |-> NoneV, exc |-> exc, cache |-> c, store |-> s,
   reads |-> 0, decodes |-> 0, fails |-> 0, refused |-> FALSE,
   recorrupted |-> FALSE, wrote |-> {}, calls |-> <<>>]

\* entity.delete()
DbDelete(s, entity) == [s EXCEPT ![entity.key] = NoneV]

\* key_name is NoKey and entity is NoneV when the argument is not given.
\* A Delete that returns without doing anything when it is given neither
\* argument.
MemcacheWrappedDelete_NoCheck(c, s, key_name, entity) ==
  IF entity = NoneV /\ key_name = NoKey
    THEN DeleteResult("none", c, s)
    ELSE LET kn == IF entity # NoneV THEN entity.key ELSE key_name
             ent == IF entity # NoneV THEN entity ELSE GetByKeyName(s, key_name)
             s1 == IF ent # NoneV THEN DbDelete(s, ent) ELSE s
         IN  DeleteResult("none", MemcacheDelete(c, EntityKey(kn)), s1)

\* A Delete that skips the cache when the datastore has no record.
MemcacheWrappedDelete_OnlyIfStored(c, s, key_name, entity) ==
  IF entity = NoneV /\ key_name = NoKey
    THEN DeleteResult("ValueError", c, s)
    ELSE LET kn == IF entity # NoneV THEN entity.key ELSE key_name
             ent == IF entity # NoneV THEN entity ELSE GetByKeyName(s, key_name)
         IN  IF ent = NoneV \/ s[kn] = NoneV
               THEN DeleteResult("none", c, s)
               ELSE DeleteResult("none", MemcacheDelete(c, EntityKey(kn)),
                                 DbDelete(s, ent))

\* A Delete that leaves the cache as it is.
MemcacheWrappedDelete_KeepCache(c, s, key_name, entity) ==
  IF entity = NoneV /\ key_name = NoKey
    THEN DeleteResult("ValueError", c, s)
    ELSE LET ent == IF entity # NoneV THEN entity ELSE GetByKeyName(s, key_name)
         IN  DeleteResult("none", c, IF ent # NoneV THEN DbDelete(s, ent) ELSE s)

\* key_name is NoKey and entity is NoneV when the argument is not given.
MemcacheWrappedDelete(c, s, key_name, entity) ==
  IF entity = NoneV /\ key_name = NoKey
    THEN DeleteResult("ValueError", c, s)
    ELSE LET kn == IF entity # NoneV THEN entity.key ELSE key_name
             ent == IF entity # NoneV THEN entity ELSE GetByKeyName(s, key_name)
             s1 == IF ent # NoneV THEN DbDelete(s, ent) ELSE s
             lookup == IF entity # NoneV THEN <<>>
                       ELSE <<CallTo("get_by_key_name", key_name)>>
             delete == IF ent # NoneV THEN <<CallTo("delete", kn)>> ELSE <<>>
         IN  After(lookup \o delete \o <<CallTo("memcache.delete", EntityKey(kn))>>,
                   DeleteResult("none", MemcacheDelete(c, EntityKey(kn)), s1))

----------------------------------------------------------------------------
(* BaseModel.ResetMemcacheWrap, MemcacheAddAutoUpdateTask, MemcacheAutoUpdate *)

\* ResetMemcacheWrap(key_name): stores what get_by_key_name returns (the
\* entity object, or None) under the entity-level key.
ResetMemcacheWrap(c, s, key_name) ==
  MemcacheSet(c, EntityKey(key_name), GetByKeyName(s, key_name))

\* The names for which hasattr(cls, func) and callable(getattr(cls, func)) hold.
ClassMethods ==
  {"ResetMemcacheWrap", "MemcacheWrappedDelete", "MemcacheWrappedSet"}

\* MemcacheAddAutoUpdateTask(func, *args, **kwargs): ValueError for a name
\* that is no callable attribute of the class, otherwise the task is appended.
MemcacheAddAutoUpdateTask(tl, func, args, kwargs) ==
  IF func \notin ClassMethods
    THEN [exc |-> "ValueError", tasks |-> tl]
    ELSE [exc |-> "none", tasks |-> Append(tl, Task(func, args, kwargs))]

\* getattr(cls, func)(*args, **kwargs) for the task functions of this model.
\* call is the invocation made: the function with the arguments passed.  The
\* memcache_secs keyword of ResetMemcacheWrap is the lifetime of the entry it
\* stores, which the cache of this model does not hold.
RunTask(c, s, task) ==
  IF task.func = "ResetMemcacheWrap"
    THEN [exc |-> "none", cache |-> ResetMemcacheWrap(c, s, task.args[1]),
          store |-> s, call |-> Task(task.func, task.args, task.kwargs)]
    ELSE LET r == MemcacheWrappedDelete(
                    c, s, IF task.args = <<>> THEN NoKey ELSE task.args[1], NoneV)
         IN  [exc |-> r.exc, cache |-> r.cache, store |-> r.store,
              call |-> Task(task.func, task.args, task.kwargs)]

\* The loop of MemcacheAutoUpdate(_deferred=True) from task i on: each task is
\* called in turn; an exception a task raises leaves the loop and the call.
\* ran: the positions of the tasks called so far; calls: the invocations made.
RECURSIVE RunTasksFrom(_, _, _, _, _, _)
RunTasksFrom(c, s, tl, i, ran, calls) ==
  IF i > Len(tl)
    THEN [exc |-> "none", cache |-> c, store |-> s, ran |-> ran,
          calls |-> calls]
    ELSE LET r == RunTask(c, s, tl[i])
         IN  IF r.exc # "none"
               THEN [exc |-> r.exc, cache |-> r.cache, store |-> r.store,
                     ran |-> Append(ran, i), calls |-> Append(calls, r.call)]
               ELSE RunTasksFrom(r.cache, r.store, tl, i + 1, Append(ran, i),
                                 Append(calls, r.call))

\* A drain that calls the first registered task only.
AutoUpdateDrain_FirstOnly(c, s, tl) ==
  IF tl = <<>>
    THEN [exc |-> "none", cache |-> c, store |-> s, ran |-> <<>>,
          calls |-> <<>>]
    ELSE RunTasksFrom(c, s, SubSeq(tl, 1, 1), 1, <<>>, <<>>)

\* MemcacheAutoUpdate(_deferred=True), the drain the task queue runs.
AutoUpdateDrain(c, s, tl) ==
  IF tl = <<>>
    THEN [exc |-> "none", cache |-> c, store |-> s, ran |-> <<>>,
          calls |-> <<>>]
    ELSE RunTasksFrom(c, s, tl, 1, <<>>, <<>>)

----------------------------------------------------------------------------
(* State, calls and environment *)

NoPrev == [op |-> "none", prop |-> NoProp, val |-> NoneV, evicted |-> FALSE]

NoCall ==
  [op |-> "none", key |-> NoKey, prop |-> NoProp, val |-> NoneV,
   secs |-> MEMCACHE_SECS, ret |-> NoneV, exc |-> "none", reads |-> 0,
   decodes |-> 0, fails |-> 0, refused |-> FALSE, recorrupted |-> FALSE,
   wrote |-> {}, evicted |-> FALSE, corrupt |-> FALSE, prev |-> NoPrev,
   calls |-> <<>>, repeat |-> FALSE, given |-> "none"]

\* The record of a call that has returned or raised.
Call(op, key_name, prop_name, value, secs, r) ==
  [op |-> op, key |-> key_name, prop |-> prop_name, val |-> value,
   secs |-> secs, ret |-> r.ret, exc |-> r.exc, reads |-> r.reads,
   decodes |-> r.decodes, fails |-> r.fails, refused |-> r.refused,
   recorrupted |-> r.recorrupted, wrote |-> r.wrote, evicted |-> FALSE,
   corrupt |-> FALSE, prev |-> NoPrev, calls |-> r.calls, repeat |-> FALSE,
   given |-> "none"]

\* What a MemcacheWrappedGet of key_name follows: the call l when l was a Set
\* or Delete of the same key that returned normally.
PrevOf(l, key_name) ==
  IF l.op \in {"Set", "Delete"} /\ l.exc = "none" /\ l.key = key_name
    THEN [op |-> l.op, prop |-> l.prop, val |-> l.val, evicted |-> l.evicted]
    ELSE NoPrev

NoDrain == [n |-> 0, ran |-> <<>>, calls |-> <<>>, exc |-> "none"]

QueueIdle ==
  /\ tasks = <<>>
  /\ scheduled = 0
  /\ executed = 0
  /\ wtasks = 0
  /\ lastDrain = NoDrain

\* No call is in progress.
NoProcs == <<>>

Init ==
  /\ store = [k \in KeyNames |-> NoneV]
  /\ cache = [mk \in CacheKeys |-> Absent]
  /\ last = NoCall
  /\ QueueIdle
  /\ procs = NoProcs

\* What the datastore and memcache do during one MemcacheWrappedGet: the
\* cache write is taken or refused, or the entry is corrupted again n times.
GetEnvs ==
  {[accept |-> a, recorrupt |-> 0] : a \in BOOLEAN}
  \cup {[accept |-> TRUE, recorrupt |-> n] : n \in 1..MaxRecorrupt}

\* What the datastore and memcache do during one MemcacheWrappedSet: all
\* calls succeed, or the first failing call is get_or_insert, put, the first
\* memcache.set or the second.
SetEnvs ==
  {[fault |-> f, accept1 |-> TRUE, accept2 |-> TRUE] : f \in {"none", "insert", "put"}}
  \cup {[fault |-> "none", accept1 |-> FALSE, accept2 |-> TRUE],
        [fault |-> "none", accept1 |-> TRUE, accept2 |-> FALSE]}

\* A request handler calls cls.MemcacheWrappedGet(key_name[, prop_name]) with
\* the default memcache_secs.  Only an entity-level entry is corrupted again.
DoGet ==
  \E k \in KeyNames, p \in PropNames \cup {NoProp}, env \in GetEnvs :
    /\ env.recorrupt > 0 => p = NoProp
    /\ \E r \in {MemcacheWrappedGet(cache, store, k, p, MEMCACHE_SECS, FALSE, env)} :
        /\ cache' = r.cache
        /\ last' = [Call("Get", k, p, NoneV, MEMCACHE_SECS, r) EXCEPT
                      !.corrupt = /\ cache[MemcacheKey(k, p)] # Absent
                                  /\ p = NoProp
                                  /\ ~Decodable(cache[MemcacheKey(k, p)].payload),
                      !.prev = PrevOf(last, k)]
        /\ UNCHANGED <<store, tasks, scheduled, executed, wtasks, lastDrain, procs>>

\* A request handler calls cls.MemcacheWrappedSet(key_name, prop_name, value)
\* with the default memcache_secs, or with another one when no call fails.
DoSet ==
  \E k \in KeyNames, p \in PropNames, v \in Values, secs \in Ttls,
     env \in SetEnvs :
    /\ secs # MEMCACHE_SECS =>
         env = [fault |-> "none", accept1 |-> TRUE, accept2 |-> TRUE]
    /\ \E r \in {MemcacheWrappedSet(cache, store, tasks, scheduled, k, p, v, secs, env)} :
        /\ cache' = r.cache
        /\ store' = r.store
        /\ scheduled' = r.scheduled
        /\ last' = [Call("Set", k, p, v, secs, r) EXCEPT
                      !.repeat = /\ last.op = "Set"
                                 /\ last.exc = "none"
                                 /\ ~last.evicted
                                 /\ <<last.key, last.prop, last.val>> = <<k, p, v>>]
        /\ UNCHANGED <<tasks, executed, wtasks, lastDrain, procs>>

\* A request handler calls cls.MemcacheWrappedDelete(key_name=..., entity=...).
DoDelete ==
  \E k \in KeyNames \cup {NoKey},
     e \in {NoneV} \cup {NewEntity(kk) : kk \in KeyNames} :
    LET r == MemcacheWrappedDelete(cache, store, k, e)
        kn == IF e # NoneV THEN e.key ELSE k
    IN  /\ cache' = r.cache
        /\ store' = r.store
        /\ last' = [Call("Delete", kn, NoProp, NoneV, MEMCACHE_SECS, r) EXCEPT
                      !.given = IF e # NoneV THEN "entity"
                                ELSE IF k # NoKey THEN "key_name" ELSE "neither"]
        /\ UNCHANGED <<tasks, scheduled, executed, wtasks, lastDrain, procs>>

\* memcache drops an entry (expiry or eviction); no call is involved.
Evict ==
  \E mk \in CacheKeys :
    /\ cache[mk] # Absent
    /\ cache' = [cache EXCEPT ![mk] = Absent]
    /\ last' = IF last.op = "none" THEN last ELSE [last EXCEPT !.evicted = TRUE]
    /\ UNCHANGED <<store, tasks, scheduled, executed, wtasks, lastDrain, procs>>

\* Something other than this code leaves an undecodable payload under an
\* entity-level key.
Corrupt ==
  \E k \in KeyNames :
    /\ cache[EntityKey(k)] # Entry(Garbage)
    /\ cache' = [cache EXCEPT ![EntityKey(k)] = Entry(Garbage)]
    /\ last' = NoCall
    /\ UNCHANGED <<store, tasks, scheduled, executed, wtasks, lastDrain, procs>>

\* Other code deletes the stored entity with entity.delete(), which touches
\* no cache entry.
DirectDelete ==
  \E k \in KeyNames :
    /\ store[k] # NoneV
    /\ store' = DbDelete(store, store[k])
    /\ last' = NoCall
    /\ UNCHANGED <<cache, tasks, scheduled, executed, wtasks, lastDrain, procs>>

Next == DoGet \/ DoSet \/ DoDelete \/ Evict \/ Corrupt \/ DirectDelete

Spec == Init /\ [][Next]_vars

----------------------------------------------------------------------------
(* The auto-update task list and the deferred drains *)

\* The tasks a caller registers here: a cache refresh of one key, with and
\* without a keyword argument, a delete called without arguments (it raises ValueError when run), and a name that
\* is no method of the class.
TaskInputs ==
  {Task("ResetMemcacheWrap", <<k>>, kw) :
     k \in KeyNames, kw \in {NoKwargs, {<<"memcache_secs", OtherSecs>>}}}
  \cup {Task("MemcacheWrappedDelete", <<>>, NoKwargs),
        Task("no_such_method", <<>>, NoKwargs)}

\* Module code calls cls.MemcacheAddAutoUpdateTask(func, *args).
Register ==
  \E t \in TaskInputs :
    LET r == MemcacheAddAutoUpdateTask(tasks, t.func, t.args, t.kwargs)
    IN  /\ Len(tasks) < MaxTasks
        /\ tasks' = r.tasks
        /\ last' = [NoCall EXCEPT !.op = "AddTask", !.exc = r.exc]
        /\ UNCHANGED <<store, cache, scheduled, executed, wtasks, lastDrain, procs>>

\* A request handler saves an entity of the class: entity.put().
DoPut ==
  \E k \in KeyNames :
    LET p == BaseModelPut(store, tasks, scheduled, NewEntity(k), FALSE)
    IN  /\ tasks = <<>> \/ wtasks < MaxWrites
        /\ store' = p.store
        /\ scheduled' = p.scheduled
        /\ wtasks' = IF tasks # <<>> THEN wtasks + 1 ELSE wtasks
        /\ last' = [NoCall EXCEPT !.op = "put", !.key = k, !.exc = p.exc]
        /\ UNCHANGED <<cache, tasks, executed, lastDrain, procs>>

\* The task queue runs one deferred MemcacheAutoUpdate(_deferred=True).
RunDeferred ==
  LET d == AutoUpdateDrain(cache, store, tasks)
  IN  /\ executed < scheduled
      /\ executed' = executed + 1
      /\ lastDrain' = [n |-> Len(tasks), ran |-> d.ran, calls |-> d.calls,
                        exc |-> d.exc]
      /\ cache' = d.cache
      /\ store' = d.store
      /\ UNCHANGED <<tasks, scheduled, wtasks, last, procs>>

NextQueue == Register \/ DoPut \/ RunDeferred

SpecQueue == Init /\ [][NextQueue]_vars

----------------------------------------------------------------------------
(* Properties of the cache engine, checked under Spec *)

\* C1: round trip.  When MemcacheWrappedSet(K, F, V) has returned for a
\* declared property F, the next MemcacheWrappedGet(K, prop_name=F) returns V,
\* whether or not cache entries vanished in between.
C1_RoundTrip ==
  (/\ last.op = "Get"
   /\ last.prev.op = "Set"
   /\ last.prop = last.prev.prop
   /\ last.prop \in DeclaredProps)
  => /\ last.exc = "none"
     /\ last.ret = last.prev.val

\* A Get of a declared field that followed a Set of it, found the field-level
\* entry gone, read the datastore and returned the value set.
C1_Witness ==
  /\ last.op = "Get"
  /\ last.prev.op = "Set"
  /\ last.prev.evicted
  /\ last.prop = last.prev.prop
  /\ last.prop \in DeclaredProps
  /\ last.wrote # {}
  /\ last.ret = Str("a")

\* C2 as stated: a Get of K, of the entity or of a field, that follows a
\* completed MemcacheWrappedDelete(K) returns None.
C2_GetAfterDeleteAbsent ==
  (last.op = "Get" /\ last.prev.op = "Delete") => last.ret = NoneV

\* C2 as amended: after a completed MemcacheWrappedDelete(K), a whole-entity
\* Get(K) returns None; a field Get(K, prop_name=F) returns what the
\* field-level entry for (K, F) holds, which Delete does not clear, and None
\* when there is no such entry.
C2_GetAfterDelete ==
  (last.op = "Get" /\ last.prev.op = "Delete" /\ ~last.evicted)
  => /\ last.exc = "none"
     /\ store[last.key] = NoneV
     /\ last.prop = NoProp => last.ret = NoneV
     /\ last.prop # NoProp =>
          last.ret = MemcacheGet(cache, FieldKey(last.key, last.prop))

\* A whole-entity Get that followed a Delete and returned None, while a
\* field-level entry of the deleted entity is still cached.
C2_Witness ==
  /\ last.op = "Get"
  /\ last.prev.op = "Delete"
  /\ ~last.evicted
  /\ last.prop = NoProp
  /\ last.ret = NoneV
  /\ \E p \in DeclaredProps : cache[FieldKey(last.key, p)] = Entry(Str("a"))

\* The entity-level entry of the key of the last call.
EntityEntry == cache[EntityKey(last.key)]

\* A whole-entity Get that found an undecodable payload under its key while
\* the datastore holds an entity for it.
GetOfCorrupt ==
  /\ last.op = "Get"
  /\ last.prop = NoProp
  /\ last.corrupt
  /\ ~last.evicted
  /\ store[last.key] # NoneV

\* C3 as stated: such a Get returns the stored entity, raises nothing, and
\* leaves a valid encoding of it in the entity-level entry.
C3_SelfHealingAlways ==
  GetOfCorrupt
  => /\ last.exc = "none"
     /\ last.ret = store[last.key]
     /\ EntityEntry = Entry(Encode(store[last.key]))

\* C3 as amended: such a Get returns the stored entity and raises nothing; on
\* return the entity-level entry is a valid encoding of it, unless memcache
\* refused the write (ValueError, swallowed) or the entry was corrupted again
\* before the retry read it, and then the entry is absent.
C3_SelfHealing ==
  GetOfCorrupt
  => /\ last.exc = "none"
     /\ last.ret = store[last.key]
     /\ EntityEntry = IF last.refused \/ last.recorrupted
                        THEN Absent
                        ELSE Entry(Encode(store[last.key]))

\* A Get that found garbage, retried, and left a valid encoding behind.
C3_Witness ==
  /\ GetOfCorrupt
  /\ last.fails = 1
  /\ last.ret = store[last.key]
  /\ EntityEntry = Entry(Encode(store[last.key]))

\* C4: a MemcacheWrappedGet reads the cache at most twice and attempts at
\* most two decodes, however often the entry is corrupted again.
C4_OneRetry ==
  last.op = "Get" => /\ last.reads <= 2
                     /\ last.decodes <= 2
                     /\ last.fails <= 2

\* A Get whose first and second decode both failed.
C4_Witness ==
  /\ last.op = "Get"
  /\ last.recorrupted
  /\ last.reads = 2
  /\ last.fails = 2

\* C5: when MemcacheWrappedSet(K, F, V, ttl) has returned, the field-level
\* entry holds V, the entity-level entry holds the encoding of the stored
\* entity, both were stored with ttl, the entity exists, and it has F = V when
\* F is a declared property.
C5_SetPopulatesBoth ==
  (last.op = "Set" /\ last.exc = "none" /\ ~last.evicted)
  => /\ store[last.key] # NoneV
     /\ last.prop \in DeclaredProps => store[last.key].props[last.prop] = last.val
     /\ cache[FieldKey(last.key, last.prop)] = Entry(last.val)
     /\ EntityEntry = Entry(Encode(store[last.key]))
     /\ last.wrote = {Write(FieldKey(last.key, last.prop), last.val, last.secs),
                      Write(EntityKey(last.key), Encode(store[last.key]),
                            last.secs)}

\* A Set with a ttl other than the default that stored a value.
C5_Witness ==
  /\ last.op = "Set"
  /\ last.exc = "none"
  /\ ~last.evicted
  /\ last.secs = OtherSecs
  /\ last.prop \in DeclaredProps
  /\ last.val = Str("a")
  /\ EntityEntry = Entry(Encode(store[last.key]))

\* C6: a MemcacheWrappedSet whose datastore write fails raises the error and
\* leaves every cache entry as it was before the call.
C6_NoCacheOnStoreFailure ==
  [][(last'.op = "Set" /\ last'.exc = "StoreError" /\ ~last'.evicted)
     => (cache' = cache /\ last'.wrote = {})]_vars

\* A Set that raised the datastore's error while both entries of its key
\* hold something.
C6_Witness ==
  /\ last.op = "Set"
  /\ last.exc = "StoreError"
  /\ ~last.evicted
  /\ last.val = Str("a")
  /\ EntityEntry # Absent
  /\ cache[FieldKey(last.key, last.prop)] = Entry(NoneV)

\* C7 as stated: a call during which memcache.set raises ValueError still
\* returns normally, and a Set has then stored its value.
C7_CacheWriteFailureSwallowed ==
  (last.op \in {"Get", "Set"} /\ last.refused)
  => /\ last.exc = "none"
     /\ (last.op = "Set" /\ last.prop \in DeclaredProps)
          => store[last.key].props[last.prop] = last.val

----------------------------------------------------------------------------
(* Properties of the auto-update task list, checked under SpecQueue *)

DrainRanPrefix ==
  /\ Len(lastDrain.ran) <= lastDrain.n
  /\ \A i \in 1..Len(lastDrain.ran) : lastDrain.ran[i] = i

C9_WritesCoalesce ==
  (wtasks >= 1 /\ executed = 0) => scheduled = 1

\* C10 as stated: a drain runs every registered task and no exception leaves
\* it, whether or not a task raises.
C10_DrainSurvivesTaskError ==
  executed >= 1 => /\ lastDrain.exc = "none"
                   /\ Len(lastDrain.ran) = lastDrain.n

\* C11: a drain during which no task raises has called every task that was
\* registered when it ran, once each, in registration order, each with the
\* positional and keyword arguments it was registered with.
C11_DrainRunsAllInOrder ==
  (executed >= 1 /\ lastDrain.exc = "none")
  => /\ lastDrain.n <= Len(tasks)
     /\ lastDrain.ran = [i \in 1..lastDrain.n |-> i]
     /\ lastDrain.calls = SubSeq(tasks, 1, lastDrain.n)

\* A drain that ran three tasks, the first two registered with different
\* arguments, one of them with a keyword argument.
C11_Witness ==
  /\ executed >= 1
  /\ lastDrain.exc = "none"
  /\ lastDrain.n = 3
  /\ Len(lastDrain.calls) = 3
  /\ lastDrain.calls[1].kwargs = NoKwargs
  /\ lastDrain.calls[2].kwargs = {<<"memcache_secs", OtherSecs>>}

----------------------------------------------------------------------------
(* One MemcacheWrappedSet and one MemcacheWrappedGet of the same key running *)
(* in two processes, one datastore or memcache call at a time               *)

RaceKey == "k1"
RaceProp == "owner"
RaceVal == Str("a")

\* The datastore and memcache calls of MemcacheWrappedSet in program order.
\* With the cache filled before the entity is put.
SetSteps_CacheFirst == <<"get_or_insert", "set_field", "set_entity", "put">>
SetSteps == <<"get_or_insert", "put", "set_field", "set_entity">>

\* What a MemcacheWrappedGet(key_name, prop_name) returns for a stored entity
\* (or for none): the entity or its property.
Output(entity, prop_name) ==
  IF prop_name = NoProp \/ entity = NoneV THEN entity ELSE entity.props[prop_name]

\* The entity MemcacheWrappedSet persists when the datastore held before.
Persisted(before, key_name, prop_name, value) ==
  LET s == [k \in {key_name} |-> before]
  IN  SetAttr(GetOrInsert(s, key_name)[key_name], prop_name, value)

\* The cache entries of RaceKey this code leaves when entity is stored: any
\* of them may be missing.
CoherentCaches(entity) ==
  {c \in [CacheKeys -> {Absent} \cup {Entry(Encode(e)) : e \in Entities}
                       \cup {Entry(v) : v \in Values}] :
     /\ c[EntityKey(RaceKey)] \in
          {Absent} \cup (IF entity = NoneV THEN {} ELSE {Entry(Encode(entity))})
     /\ \A p \in PropNames :
          c[FieldKey(RaceKey, p)] \in
            {Absent} \cup (IF entity = NoneV \/ p \notin {RaceProp}
                             THEN {} ELSE {Entry(entity.props[p])})}

\* Process "set" is about to run MemcacheWrappedSet(RaceKey, RaceProp, RaceVal)
\* and process "get" MemcacheWrappedGet(RaceKey) or (RaceKey, RaceProp); the
\* datastore holds some entity or none, and the cache agrees with it.
InitRace ==
  /\ store \in [KeyNames -> {NoneV} \cup Entities]
  /\ cache \in CoherentCaches(store[RaceKey])
  /\ last = NoCall
  /\ QueueIdle
  /\ \E p \in {NoProp, RaceProp} :
       procs = [set |-> [at |-> 1, entity |-> NoneV, before |-> store[RaceKey]],
                get |-> [pc |-> "start", prop |-> p, cached |-> NoneV,
                         entity |-> NoneV, ret |-> NoneV]]

SetAt(step) ==
  /\ procs.set.at <= Len(SetSteps)
  /\ SetSteps[procs.set.at] = step

\* entity = cls.get_or_insert(key_name); setattr(entity, prop_name, value)
SetGetOrInsert ==
  /\ SetAt("get_or_insert")
  /\ store' = GetOrInsert(store, RaceKey)
  /\ procs' = [procs EXCEPT !.set.at = @ + 1,
                            !.set.entity = SetAttr(store'[RaceKey], RaceProp, RaceVal)]
  /\ UNCHANGED <<cache, tasks, scheduled, executed, wtasks, lastDrain, last>>

\* entity.put()
SetPut ==
  /\ SetAt("put")
  /\ LET p == BaseModelPut(store, tasks, scheduled, procs.set.entity, FALSE)
     IN  /\ store' = p.store
         /\ scheduled' = p.scheduled
  /\ procs' = [procs EXCEPT !.set.at = @ + 1]
  /\ UNCHANGED <<cache, tasks, executed, wtasks, lastDrain, last>>

\* memcache.set(memcache_key, value, memcache_secs)
SetCacheField ==
  /\ SetAt("set_field")
  /\ cache' = MemcacheSet(cache, FieldKey(RaceKey, RaceProp), RaceVal)
  /\ procs' = [procs EXCEPT !.set.at = @ + 1]
  /\ UNCHANGED <<store, tasks, scheduled, executed, wtasks, lastDrain, last>>

\* memcache.set(memcache_entity_key, entity_protobuf, memcache_secs)
SetCacheEntity ==
  /\ SetAt("set_entity")
  /\ cache' = MemcacheSet(cache, EntityKey(RaceKey), Encode(procs.set.entity))
  /\ procs' = [procs EXCEPT !.set.at = @ + 1]
  /\ UNCHANGED <<store, tasks, scheduled, executed, wtasks, lastDrain, last>>

\* cached = memcache.get(memcache_key), and the return on a hit.
GetReadCache ==
  LET g == procs.get
      cached == MemcacheGet(cache, MemcacheKey(RaceKey, g.prop))
  IN  /\ g.pc = "start"
      /\ procs' = [procs EXCEPT !.get =
           IF cached = NoneV THEN [g EXCEPT !.pc = "miss"]
           ELSE [g EXCEPT !.pc = "done", !.cached = cached,
                          !.ret = IF g.prop # NoProp THEN cached
                                                     ELSE Decode(cached)]]
      /\ UNCHANGED <<store, cache, tasks, scheduled, executed, wtasks, lastDrain, last>>

\* entity = cls.get_by_key_name(key_name), and the return when there is none.
GetFetch ==
  LET g == procs.get
      entity == GetByKeyName(store, RaceKey)
  IN  /\ g.pc = "miss"
      /\ procs' = [procs EXCEPT !.get =
           IF entity = NoneV THEN [g EXCEPT !.pc = "done", !.ret = NoneV]
           ELSE [g EXCEPT !.pc = "fetched", !.entity = entity]]
      /\ UNCHANGED <<store, cache, tasks, scheduled, executed, wtasks, lastDrain, last>>

\* memcache.set(memcache_key, to_cache, memcache_secs) and the return.
GetPopulate ==
  LET g == procs.get
      output == Output(g.entity, g.prop)
      to_cache == IF g.prop # NoProp THEN output ELSE Encode(g.entity)
  IN  /\ g.pc = "fetched"
      /\ cache' = MemcacheSet(cache, MemcacheKey(RaceKey, g.prop), to_cache)
      /\ procs' = [procs EXCEPT !.get.pc = "done", !.get.ret = output]
      /\ UNCHANGED <<store, tasks, scheduled, executed, wtasks, lastDrain, last>>

NextRace ==
  \/ SetGetOrInsert \/ SetPut \/ SetCacheField \/ SetCacheEntity
  \/ GetReadCache \/ GetFetch \/ GetPopulate

SpecRace == InitRace /\ [][NextRace]_vars

\* The Set has made a memcache.set call.
SetHasCached ==
  \E i \in 1..(procs.set.at - 1) : SetSteps[i] \in {"set_field", "set_entity"}

\* The Set has come back from entity.put().
SetHasPut == \E i \in 1..(procs.set.at - 1) : SetSteps[i] = "put"

\* When the Set has written to the cache, the datastore holds the entity it
\* persists.
CacheAfterPut ==
  SetHasCached
  => /\ SetHasPut
     /\ store[RaceKey] = Persisted(procs.set.before, RaceKey, RaceProp, RaceVal)

\* C12 as stated: the Set writes the cache only after its put has completed,
\* and the Get returns what the datastore held before the Set or what the Set
\* persisted.
C12_GetSeesBeforeOrAfter ==
  /\ CacheAfterPut
  /\ procs.get.pc = "done" =>
       procs.get.ret \in
         {Output(procs.set.before, procs.get.prop),
          Output(Persisted(procs.set.before, RaceKey, RaceProp, RaceVal),
                 procs.get.prop)}

\* C12 as amended: the Set writes the cache only after its put has completed,
\* and the Get returns what the datastore held before the Set, what the Set
\* persisted or, when there was no record before the Set, the entity with
\* default property values that get_or_insert stores before the put.
C12_GetSeesBeforeInsertedOrAfter ==
  /\ CacheAfterPut
  /\ procs.get.pc = "done" =>
       procs.get.ret \in
         {Output(procs.set.before, procs.get.prop),
          Output(Persisted(procs.set.before, RaceKey, RaceProp, RaceVal),
                 procs.get.prop)}
         \cup (IF procs.set.before = NoneV
                 THEN {Output(NewEntity(RaceKey), procs.get.prop)} ELSE {})

\* The Get missed the cache, read the datastore while the Set was between
\* put() and its cache writes, and returned the entity the Set persisted,
\* which differs from the one stored before in the property set only.
C12_Witness ==
  /\ procs.get.pc = "done"
  /\ procs.get.prop = NoProp
  /\ procs.set.before # NoneV
  /\ procs.set.before.props["hostname"] = Str("a")
  /\ procs.get.ret = Persisted(procs.set.before, RaceKey, RaceProp, RaceVal)
  /\ procs.get.ret # procs.set.before
  /\ SetHasPut
  /\ ~SetHasCached

----------------------------------------------------------------------------
(* Delete, granularity and idempotence, checked under Spec *)

\* The positions in the last call's trace of the calls to fn.
CallsTo(fn) == {i \in 1..Len(last.calls) : last.calls[i].fn = fn}

\* C13: when MemcacheWrappedDelete(key_name=K) or (entity=E) has returned, the
\* datastore has no record for the key and the cache no entity-level entry
\* for it; it raises nothing, also when there was no record, and then still
\* deletes the cache entry; entity.delete() is called before memcache.delete.
C13_DeleteClears ==
  (last.op = "Delete" /\ last.given \in {"key_name", "entity"})
  => /\ last.exc = "none"
     /\ store[last.key] = NoneV
     /\ EntityEntry = Absent
     /\ \E i \in CallsTo("memcache.delete") :
          /\ last.calls[i].key = EntityKey(last.key)
          /\ \A j \in CallsTo("delete") : j < i

\* A Delete by key name that found no record, so called no entity.delete(),
\* and left no entity-level entry while a field-level entry remains.
C13_Witness ==
  /\ last.op = "Delete"
  /\ last.given = "key_name"
  /\ ~last.evicted
  /\ CallsTo("delete") = {}
  /\ CallsTo("memcache.delete") # {}
  /\ EntityEntry = Absent
  /\ cache[FieldKey(last.key, "owner")] = Entry(Str("a"))

\* C14: MemcacheWrappedDelete called with neither a key name nor an entity
\* raises ValueError before it calls the datastore or memcache, and leaves
\* both as they were.
C14_DeleteNeedsArgument ==
  [][(last'.op = "Delete" /\ last'.given = "neither" /\ ~last'.evicted)
     => /\ last'.exc = "ValueError"
        /\ last'.calls = <<>>
        /\ store' = store
        /\ cache' = cache]_vars

\* A Delete without arguments that raised ValueError while the entity is
\* stored and cached.
C14_Witness ==
  /\ last.op = "Delete"
  /\ last.given = "neither"
  /\ ~last.evicted
  /\ last.exc = "ValueError"
  /\ \E k \in KeyNames : /\ store[k] # NoneV
                         /\ cache[EntityKey(k)] = Entry(Encode(store[k]))

\* The cache key of the granularity of the call rec: the entity-level key of
\* a whole-entity call, the field-level key of a field call.
OwnKey(rec) ==
  IF rec.prop = NoProp THEN EntityKey(rec.key) ELSE FieldKey(rec.key, rec.prop)

\* C15: a whole-entity MemcacheWrappedGet calls memcache with the
\* entity-level key only and a field Get with the field-level key only, and
\* each leaves every cache entry of the other granularity as it was; so the
\* field Get that misses fills the field-level entry alone.
C15_GranularityIndependent ==
  [][(last'.op = "Get" /\ ~last'.evicted)
     => /\ \A i \in 1..Len(last'.calls) :
             last'.calls[i].fn \in {"memcache.get", "memcache.set", "memcache.delete"}
             => last'.calls[i].key = OwnKey(last')
        /\ \A w \in last'.wrote : w.mk = OwnKey(last')
        /\ \A mk \in CacheKeys \ {OwnKey(last')} : cache'[mk] = cache[mk]]_vars

\* A field Get that missed, read the datastore and filled the field-level
\* entry, while the entity-level entry of the stored entity is still absent.
C15_Witness ==
  /\ last.op = "Get"
  /\ ~last.evicted
  /\ last.prop = "owner"
  /\ last.ret = Str("a")
  /\ last.wrote # {}
  /\ store[last.key] # NoneV
  /\ EntityEntry = Absent
  /\ cache[FieldKey(last.key, "owner")] = Entry(Str("a"))

\* What MemcacheWrappedGet(key_name[, prop_name]) returns from cache c and
\* datastore s.
ObservedGet(c, s, key_name, prop_name) ==
  MemcacheWrappedGet(c, s, key_name, prop_name, MEMCACHE_SECS, FALSE,
                     [accept |-> TRUE, recorrupt |-> 0]).ret

----------------------------------------------------------------------------
(* KeyValueCache.IpInList *)

MaxBlocks == 2

\* An IP string by its form: empty, one that contains a colon, or four
\* decimal fields separated by dots.
EmptyIp == [form |-> "empty"]
ColonIp == [form |-> "colon"]
DottedIp(a, b, c, d) == [form |-> "dotted", fields |-> <<a, b, c, d>>]
\* An entry of the block list: "a.b.c.d/bits", or a string of another shape.
Block(a, b, c, d, bits) == [form |-> "block", fields |-> <<a, b, c, d>>, bits |-> bits]
NotABlock == [form |-> "other"]

Ips ==
  {EmptyIp, ColonIp, DottedIp(10, 1, 2, 3), DottedIp(8, 8, 8, 8),
   DottedIp(192, 168, 1, 77), DottedIp(192, 168, 2, 1)}
Blocks == {Block(10, 0, 0, 0, 8), Block(192, 168, 1, 0, 24), NotABlock}

RECURSIVE SeqsUpTo(_, _)
\* The sequences over S of length at most n.
SeqsUpTo(S, n) ==
  IF n = 0 THEN {<<>>}
  ELSE LET shorter == SeqsUpTo(S, n - 1)
       IN  shorter \cup {Append(q, x) : q \in shorter, x \in S}

\* util.Serialize(list): the text form of a list.
Serialize(list) == [kind |-> "serialized", v |-> list]
\* util.Deserialize(text): the list, or DeserializeError for a text that is
\* not in serialized form.
Deserialize(text) ==
  IF text.kind = "serialized"
    THEN [exc |-> "none", value |-> text.v]
    ELSE [exc |-> "DeserializeError", value |-> NoneV]

\* What text_value is set to: None, the empty string, a text that is not
\* in serialized form, or a serialized list of entries.
TextValues ==
  {NoneV, Str(""), Str("a")} \cup {Serialize(l) : l \in SeqsUpTo(Blocks, MaxBlocks)}

\* A 32-bit unsigned integer as its upper and lower 16 bits.
\* util.IpToInt(ip): the fields of a dotted IP as one 32-bit integer.
IpToInt(ip) ==
  <<ip.fields[1] * 256 + ip.fields[2], ip.fields[3] * 256 + ip.fields[4]>>

\* The 16-bit number whose upper n bits are set.
UpperBits(n) == 2^16 - 2^(16 - n)
\* The 32-bit mask of a prefix length.
MaskInt(bits) ==
  <<UpperBits(IF bits > 16 THEN 16 ELSE bits),
    UpperBits(IF bits > 16 THEN bits - 16 ELSE 0)>>

\* util.IpMaskToInts(ip_mask_str): (network integer, mask integer) of
\* "a.b.c.d/bits"; a string of another shape cannot be split and converted,
\* which raises.
IpMaskToInts(ip_mask_str) ==
  IF ip_mask_str.form = "block"
    THEN [exc |-> "none",
          ints |-> <<IpToInt(ip_mask_str), MaskInt(ip_mask_str.bits)>>]
    ELSE [exc |-> "ValueError", ints |-> <<>>]

RECURSIVE BitAnd(_, _)
\* a & b
BitAnd(a, b) ==
  IF a = 0 \/ b = 0 THEN 0
  ELSE (a % 2) * (b % 2) + 2 * BitAnd(a \div 2, b \div 2)
\* x & y on 32-bit integers.
And32(x, y) == <<BitAnd(x[1], y[1]), BitAnd(x[2], y[2])>>

\* A loop that looks at the first entry of the list only.
BlocksLoop_FirstOnly(ip_int, ip_blocks, i) ==
  IF i > Len(ip_blocks) THEN [exc |-> "none", ret |-> FALSE]
  ELSE LET ip_mask == IpMaskToInts(ip_blocks[i])
       IN  IF ip_mask.exc # "none" THEN [exc |-> ip_mask.exc, ret |-> NoneV]
           ELSE [exc |-> "none",
                 ret |-> And32(ip_int, ip_mask.ints[2]) = ip_mask.ints[1]]

RECURSIVE BlocksLoop(_, _, _)
\* for ip_mask_str in ip_blocks, from entry i on: True at the first entry
\* that matches, False after the last; an exception of util.IpMaskToInts
\* leaves the loop and IpInList.
BlocksLoop(ip_int, ip_blocks, i) ==
  IF i > Len(ip_blocks) THEN [exc |-> "none", ret |-> FALSE]
  ELSE LET ip_mask == IpMaskToInts(ip_blocks[i])
       IN  IF ip_mask.exc # "none" THEN [exc |-> ip_mask.exc, ret |-> NoneV]
           ELSE IF And32(ip_int, ip_mask.ints[2]) = ip_mask.ints[1]
             THEN [exc |-> "none", ret |-> TRUE]
             ELSE BlocksLoop(ip_int, ip_blocks, i + 1)

IpResult(ret, exc, c) == [ret |-> ret, exc |-> exc, cache |-> c]

\* cls.IpInList(key_name, ip).  accept: whether memcache.set takes the value
\* when MemcacheWrappedGet caches it.
IpInList(c, s, key_name, ip, accept) ==
  IF ip = EmptyIp THEN IpResult(FALSE, "none", c)
  ELSE IF ip.form = "colon" THEN IpResult(FALSE, "none", c)
  ELSE LET g == MemcacheWrappedGet(c, s, key_name, "text_value", MEMCACHE_SECS,
                                   FALSE, [accept |-> accept, recorrupt |-> 0])
           ip_blocks_str == g.ret
       IN  IF ip_blocks_str \in {NoneV, Str("")}
             THEN IpResult(FALSE, "none", g.cache)
           ELSE LET d == Deserialize(ip_blocks_str)
                IN  IF d.exc # "none" THEN IpResult(FALSE, "none", g.cache)
                    ELSE LET r == BlocksLoop(IpToInt(ip), d.value, 1)
                         IN  IpResult(r.ret, r.exc, g.cache)

InitIp ==
  /\ store = [k \in {IpListKey} |-> NoneV]
  /\ cache = [mk \in {EntityKey(IpListKey), FieldKey(IpListKey, "text_value")}
                |-> Absent]
  /\ last = NoCall
  /\ QueueIdle
  /\ procs = NoProcs

\* An administrator stores a block list:
\* KeyValueCache.MemcacheWrappedSet(key_name, 'text_value', value).
StoreBlocks ==
  \E v \in TextValues :
    LET r == MemcacheWrappedSet(cache, store, tasks, scheduled, IpListKey,
                                "text_value", v, MEMCACHE_SECS,
                                [fault |-> "none", accept1 |-> TRUE,
                                 accept2 |-> TRUE])
    IN  /\ cache' = r.cache
        /\ store' = r.store
        /\ scheduled' = r.scheduled
        /\ last' = Call("Set", IpListKey, "text_value", v, MEMCACHE_SECS, r)
        /\ UNCHANGED <<tasks, executed, wtasks, lastDrain, procs>>

\* A request handler calls KeyValueCache.IpInList(key_name, ip).
DoIpInList ==
  \E ip \in Ips, accept \in BOOLEAN :
    LET r == IpInList(cache, store, IpListKey, ip, accept)
    IN  /\ cache' = r.cache
        /\ last' = [NoCall EXCEPT !.op = "IpInList", !.key = IpListKey,
                                  !.val = ip, !.ret = r.ret, !.exc = r.exc]
        /\ UNCHANGED <<store, tasks, scheduled, executed, wtasks, lastDrain, procs>>

\* memcache drops an entry of the block list.
EvictBlocks ==
  \E mk \in DOMAIN cache :
    /\ cache[mk] # Absent
    /\ cache' = [cache EXCEPT ![mk] = Absent]
    /\ UNCHANGED <<store, tasks, scheduled, executed, wtasks, lastDrain, last, procs>>

NextIp == StoreBlocks \/ DoIpInList \/ EvictBlocks

SpecIp == InitIp /\ [][NextIp]_vars

\* The text_value stored for the block list, None when there is no entity.
StoredText ==
  IF store[IpListKey] = NoneV THEN NoneV ELSE store[IpListKey].props["text_value"]

\* The stored text is a serialized list of "a.b.c.d/bits" entries.
StoredBlockList ==
  /\ StoredText \notin {NoneV, Str(""), Str("a")}
  /\ \A i \in 1..Len(StoredText.v) : StoredText.v[i].form = "block"

\* The last call was IpInList with a dotted IPv4 address.
IpInListOfDotted == last.op = "IpInList" /\ last.val.form = "dotted"

\* C17: for a dotted IPv4 address and a stored list of network/mask entries,
\* IpInList returns True exactly when (ipInt & mask) = network for some
\* entry; with [10.0.0.0/8, 192.168.1.0/24] stored it returns True for
\* 10.1.2.3 and False for 8.8.8.8.
C17_IpInListMatches ==
  (IpInListOfDotted /\ StoredBlockList)
  => /\ last.exc = "none"
     /\ last.ret = (\E i \in 1..Len(StoredText.v) :
                      And32(IpToInt(last.val), MaskInt(StoredText.v[i].bits))
                        = IpToInt(StoredText.v[i]))
     /\ StoredText.v = <<Block(10, 0, 0, 0, 8), Block(192, 168, 1, 0, 24)>>
          => /\ last.val = DottedIp(10, 1, 2, 3) => last.ret = TRUE
             /\ last.val = DottedIp(8, 8, 8, 8) => last.ret = FALSE
             /\ last.val = DottedIp(192, 168, 1, 77) => last.ret = TRUE
             /\ last.val = DottedIp(192, 168, 2, 1) => last.ret = FALSE

\* IpInList of 192.168.1.77 returned True for the list
\* [10.0.0.0/8, 192.168.1.0/24], whose second entry is the one that matches.
C17_Witness ==
  /\ IpInListOfDotted
  /\ StoredText = Serialize(<<Block(10, 0, 0, 0, 8), Block(192, 168, 1, 0, 24)>>)
  /\ last.val = DottedIp(192, 168, 1, 77)
  /\ last.ret = TRUE

\* The last call was IpInList on one of the failure paths: an empty ip, an ip
\* with a colon, no entity, an empty text_value, a text_value that does not
\* deserialize, or a list with an entry that is no network/mask.
IpInListFailurePath ==
  /\ last.op = "IpInList"
  /\ \/ last.val.form \in {"empty", "colon"}
     \/ StoredText \in {NoneV, Str(""), Str("a")}
     \/ \E i \in 1..Len(StoredText.v) : StoredText.v[i] = NotABlock

\* C18 as stated: on every failure path IpInList returns False and raises
\* nothing.
C18_FalseOnEveryFailure ==
  IpInListFailurePath => (last.exc = "none" /\ last.ret = FALSE)

----------------------------------------------------------------------------
(* Tag.put, Tag.delete and Tag.GetAllTagNames, one datastore or memcache    *)
(* call at a time                                                           *)

ALL_TAGS_MEMCACHE_KEY == "all_tags"
TagNames == {"a", "B"}
\* The tag names in the order of their datastore keys, and in the order of
\* their lower-case forms.
KeyOrder == <<"B", "a">>
LowerOrder == <<"a", "B">>
Readers == {"r1", "r2"}

\* A Tag entity: its key name is the tag's name.
TagEntity(name) == EntityOf(name, [keys |-> <<>>])

\* A Python list of strings.
List(items) == [kind |-> "list", v |-> items]
\* The members of a list.
Members(list) == {list.v[i] : i \in 1..Len(list.v)}

\* [key.name() for key in cls.all(keys_only=True)]
AllKeyNames(s) ==
  LET Stored(name) == s[name] # NoneV
  IN  List(SelectSeq(KeyOrder, Stored))

\* sorted(tags, key=unicode.lower)
SortedLower(tags) ==
  LET Listed(name) == name \in Members(tags)
  IN  List(SelectSeq(LowerOrder, Listed))

IdleReader ==
  [pc |-> "idle", tags |-> NoneV, ret |-> NoneV, judged |-> FALSE,
   expect |-> NoneV]

\* No tag is stored and nothing is cached; a writer process and the reader
\* processes are idle.
InitTag ==
  /\ store = [name \in TagNames |-> NoneV]
  /\ cache = [mk \in {ALL_TAGS_MEMCACHE_KEY} |-> Absent]
  /\ last = NoCall
  /\ QueueIdle
  /\ procs = [w |-> [pc |-> "idle", op |-> "none", name |-> "", completed |-> FALSE]]
             @@ [r \in Readers |-> IdleReader]

\* Tag.put() or Tag.delete() starts: memcache.delete(ALL_TAGS_MEMCACHE_KEY).
\* A GetAllTagNames in progress now overlaps a write.
TagPurge ==
  \E op \in {"put", "delete"}, name \in TagNames :
    /\ procs.w.pc = "idle"
    /\ op = "delete" => store[name] # NoneV
    /\ cache' = MemcacheDelete(cache, ALL_TAGS_MEMCACHE_KEY)
    /\ procs' = [p \in DOMAIN procs |->
                   IF p = "w" THEN [procs.w EXCEPT !.pc = "purged", !.op = op,
                                                   !.name = name]
                   ELSE IF procs[p].pc \in {"missed", "queried"}
                     THEN [procs[p] EXCEPT !.judged = FALSE, !.expect = NoneV]
                     ELSE procs[p]]
    /\ UNCHANGED <<store, tasks, scheduled, executed, wtasks, lastDrain, last>>

\* super(Tag, self).put() or super(Tag, self).delete(), and the return.
TagWrite ==
  /\ procs.w.pc = "purged"
  /\ IF procs.w.op = "put"
       THEN LET p == BaseModelPut(store, tasks, scheduled,
                                  TagEntity(procs.w.name), FALSE)
            IN  store' = p.store /\ scheduled' = p.scheduled
       ELSE /\ store' = DbDelete(store, TagEntity(procs.w.name))
            /\ scheduled' = scheduled
  /\ procs' = [procs EXCEPT !.w.pc = "idle", !.w.completed = TRUE]
  /\ UNCHANGED <<cache, tasks, executed, wtasks, lastDrain, last>>

\* GetAllTagNames starts: tags = memcache.get(ALL_TAGS_MEMCACHE_KEY), and the
\* return when the cached list is not empty.  The call is judged when a
\* put() or delete() has completed and none is in progress; expect is the
\* sorted list of the names then stored.
TagsRead(r) ==
  LET tags == MemcacheGet(cache, ALL_TAGS_MEMCACHE_KEY)
      judged == procs.w.completed /\ procs.w.pc = "idle"
      started == [IdleReader EXCEPT
                    !.judged = judged,
                    !.expect = IF judged THEN SortedLower(AllKeyNames(store))
                                         ELSE NoneV]
  IN  /\ procs[r].pc \in {"idle", "returned"}
      /\ procs' = [procs EXCEPT ![r] =
           IF tags \in {NoneV, List(<<>>)}
             THEN [started EXCEPT !.pc = "missed"]
             ELSE [started EXCEPT !.pc = "returned", !.ret = tags]]
      /\ UNCHANGED <<store, cache, tasks, scheduled, executed, wtasks, lastDrain, last>>

\* tags = [key.name() for key in cls.all(keys_only=True)], sorted.
TagsQuery(r) ==
  /\ procs[r].pc = "missed"
  /\ procs' = [procs EXCEPT ![r].pc = "queried",
                            ![r].tags = SortedLower(AllKeyNames(store))]
  /\ UNCHANGED <<store, cache, tasks, scheduled, executed, wtasks, lastDrain, last>>

\* memcache.set(ALL_TAGS_MEMCACHE_KEY, tags), and the return.
TagsFill(r) ==
  /\ procs[r].pc = "queried"
  /\ cache' = MemcacheSet(cache, ALL_TAGS_MEMCACHE_KEY, procs[r].tags)
  /\ procs' = [procs EXCEPT ![r].pc = "returned", ![r].ret = procs[r].tags,
                            ![r].tags = NoneV]
  /\ UNCHANGED <<store, tasks, scheduled, executed, wtasks, lastDrain, last>>

NextTag ==
  \/ TagPurge
  \/ TagWrite
  \/ \E r \in Readers : TagsRead(r)
  \/ \E r \in Readers : TagsQuery(r)
  \/ \E r \in Readers : TagsFill(r)

SpecTag == InitTag /\ [][NextTag]_vars

\* C19 as stated: a GetAllTagNames that starts after a Tag.put() or
\* Tag.delete() has completed, with no put or delete running at its start or
\* during it, returns the names of the tags stored at its start, sorted
\* without regard to case, whatever other GetAllTagNames calls did around
\* the write.
C19_TagNamesFresh ==
  \A r \in Readers :
    (procs[r].pc = "returned" /\ procs[r].judged)
    => procs[r].ret = procs[r].expect

----------------------------------------------------------------------------
(* BaseModel.MemcacheWrappedGetAllFilter *)

MaxLimit == 2

FilterKeyNames == {"k1", "k2"}
\* The key names in the order a query returns their entities.
QueryOrder == <<"k1", "k2">>
\* The values of the owner property used here: None and the string "None".
FilterValues == {NoneV, Str("None")}
\* The filter tuples callers pass: none, one equality on a property, with
\* None or with a string, and two equalities.
FilterSets ==
  {<<>>}
  \cup {<<<<"owner =", v>>>> : v \in FilterValues}
  \cup {<<<<"owner =", Str("a")>>, <<"hostname =", Str("a")>>>>,
        <<<<"owner =", Str("a_|_hostname =,a")>>>>}
Limits == 1..MaxLimit

\* '%s' % value
ToText(value) == IF value = NoneV THEN "None" ELSE value.v

RECURSIVE JoinFilters(_, _)
\* '|'.join(map(lambda x: '_%s,%s_' % (x[0], x[1]), filters)), from filter i on.
JoinFilters(filters, i) ==
  IF i > Len(filters) THEN ""
  ELSE "_" \o filters[i][1] \o "," \o ToText(filters[i][2]) \o "_"
       \o (IF i < Len(filters) THEN "|" ELSE "")
       \o JoinFilters(filters, i + 1)

\* memcache_key = 'mwgaf_%s%s' % (cls.kind(), filter_str)
FilterCacheKey(filters) == "mwgaf_" \o KIND \o JoinFilters(filters, 1)

\* The property a filter string "<property> =" compares.
FilterProp(filt) == IF filt = "owner =" THEN "owner" ELSE "hostname"

\* Whether an entity passes every query.filter(filt, value).
PassesFilters(entity, filters) ==
  \A i \in 1..Len(filters) :
    entity.props[FilterProp(filters[i][1])] = filters[i][2]

\* query.fetch(limit): the first limit stored entities that pass the filters.
Fetch(s, filters, limit) ==
  LET Passes(k) == s[k] # NoneV /\ PassesFilters(s[k], filters)
      found == SelectSeq(QueryOrder, Passes)
      n == IF Len(found) < limit THEN Len(found) ELSE limit
  IN  [i \in 1..n |-> s[found[i]]]

\* A Python list of entities.
EntityList(items) == [kind |-> "list", v |-> items]

\* cls.MemcacheWrappedGetAllFilter(filters, limit).  accept: whether
\* memcache.set takes the list; its ValueError is not caught.
MemcacheWrappedGetAllFilter(c, s, filters, limit, accept) ==
  LET memcache_key == FilterCacheKey(filters)
      cached == MemcacheGet(c, memcache_key)
  IN  IF cached # NoneV
        THEN [ret |-> cached, exc |-> "none", cache |-> c]
      ELSE LET entities == EntityList(Fetch(s, filters, limit))
           IN  IF MemcacheRefuses(entities, accept)
                 THEN [ret |-> NoneV, exc |-> "ValueError", cache |-> c]
                 ELSE [ret |-> entities, exc |-> "none",
                       cache |-> MemcacheSet(c, memcache_key, entities)]

InitFilter ==
  /\ store = [k \in FilterKeyNames |-> NoneV]
  /\ cache = [mk \in {FilterCacheKey(f) : f \in FilterSets} |-> Absent]
  /\ last = NoCall
  /\ QueueIdle
  /\ procs = NoProcs

\* A request handler calls cls.MemcacheWrappedGetAllFilter(filters, limit).
DoGetAllFilter ==
  \E filters \in FilterSets, limit \in Limits, accept \in BOOLEAN :
    LET r == MemcacheWrappedGetAllFilter(cache, store, filters, limit, accept)
    IN  /\ cache' = r.cache
        /\ last' = [limit |-> limit, filters |-> filters]
                   @@ [NoCall EXCEPT !.op = "GetAllFilter", !.ret = r.ret,
                                     !.exc = r.exc]
        /\ UNCHANGED <<store, tasks, scheduled, executed, wtasks, lastDrain, procs>>

\* Other code saves an entity with entity.put(), or deletes one.
WriteEntity ==
  \E k \in FilterKeyNames, v \in FilterValues, op \in {"put", "delete"} :
    LET entity == SetAttr(NewEntity(k), "owner", v)
        p == BaseModelPut(store, tasks, scheduled, entity, FALSE)
    IN  /\ op = "delete" => (store[k] # NoneV /\ v = NoneV)
        /\ store' = IF op = "put" THEN p.store ELSE DbDelete(store, store[k])
        /\ scheduled' = IF op = "put" THEN p.scheduled ELSE scheduled
        /\ last' = NoCall
        /\ UNCHANGED <<cache, tasks, executed, wtasks, lastDrain, procs>>

\* memcache drops a cached result list.
EvictList ==
  \E mk \in DOMAIN cache :
    /\ cache[mk] # Absent
    /\ cache' = [cache EXCEPT ![mk] = Absent]
    /\ last' = NoCall
    /\ UNCHANGED <<store, tasks, scheduled, executed, wtasks, lastDrain, procs>>

NextFilter == DoGetAllFilter \/ WriteEntity \/ EvictList

SpecFilter == InitFilter /\ [][NextFilter]_vars

\* C20 as stated: a MemcacheWrappedGetAllFilter(filters, limit) that returns
\* returns at most limit entities, whatever calls with the same filters and
\* other limits came before.
C20_AtMostLimit ==
  (last.op = "GetAllFilter" /\ last.exc = "none")
  => Len(last.ret.v) <= last.limit

\* C21 as stated: different filter lists (other predicates, other values or
\* another number of predicates) have different cache keys, so a
\* MemcacheWrappedGetAllFilter never returns the cached list of another
\* filter list: every entity it returns, from the datastore or from the
\* cache, passed its own filters when it was fetched.
C21_FilterKeyInjective ==
  (last.op = "GetAllFilter" /\ last.exc = "none")
  => \A i \in 1..Len(last.ret.v) : PassesFilters(last.ret.v[i], last.filters)

----------------------------------------------------------------------------
(* Further properties of MemcacheWrappedGet, checked under Spec *)

\* C22: a whole-entity MemcacheWrappedGet(K) whose decode fails on the first
\* attempt and on the retry returns what the datastore holds for K (the
\* entity or None), raises nothing and makes no memcache.set: it leaves the
\* entity-level entry deleted.
C22_DoubleFailureBypassesCache ==
  (last.op = "Get" /\ last.fails = 2 /\ ~last.evicted)
  => /\ last.exc = "none"
     /\ last.ret = store[last.key]
     /\ last.wrote = {}
     /\ CallsTo("memcache.set") = {}
     /\ last.calls[Len(last.calls)] = CallTo("get_by_key_name", last.key)
     /\ EntityEntry = Absent

\* A Get whose two decodes failed while an entity is stored: it returned the
\* entity and the entity-level entry is absent.
C22_Witness ==
  /\ last.op = "Get"
  /\ last.fails = 2
  /\ ~last.evicted
  /\ store[last.key] # NoneV
  /\ last.ret = store[last.key]
  /\ EntityEntry = Absent

\* The step is a MemcacheWrappedGet that found nothing under its cache key.
GetMissed ==
  /\ last'.op = "Get"
  /\ ~last'.evicted
  /\ MemcacheGet(cache, OwnKey(last')) = NoneV

\* C23: a MemcacheWrappedGet(K) or MemcacheWrappedGet(K, prop_name=F) that
\* misses the cache and finds no entity for K returns None, raises nothing
\* and makes no memcache.set: the cache is as it was before the call.
C23_NoNegativeCaching ==
  [][(GetMissed /\ store[last'.key] = NoneV)
     => /\ last'.ret = NoneV
        /\ last'.exc = "none"
        /\ last'.wrote = {}
        /\ \A i \in 1..Len(last'.calls) : last'.calls[i].fn # "memcache.set"
        /\ cache' = cache]_vars

\* A field Get that missed and found no entity, after a Delete removed the
\* entity and memcache dropped the field-level entry; the entry is absent.
C23_Witness ==
  /\ last.op = "Get"
  /\ ~last.evicted
  /\ last.prop = "owner"
  /\ last.prev.op = "Delete"
  /\ store[last.key] = NoneV
  /\ last.ret = NoneV
  /\ Len(last.calls) = 2
  /\ cache[FieldKey(last.key, "owner")] = Absent

\* C24: a MemcacheWrappedGet(K, prop_name=F) that misses the cache, where the
\* entity for K is stored and has no attribute F, returns None, raises
\* nothing and makes no memcache.set: the cache is as it was before the call.
C24_MissingFieldAbsent ==
  [][(/\ GetMissed
      /\ last'.prop # NoProp
      /\ store[last'.key] # NoneV
      /\ last'.prop \notin DOMAIN store[last'.key].props)
     => /\ last'.ret = NoneV
        /\ last'.exc = "none"
        /\ last'.wrote = {}
        /\ \A i \in 1..Len(last'.calls) : last'.calls[i].fn # "memcache.set"
        /\ cache' = cache]_vars

\* A Get of a name that is no property of the stored entity: it missed the
\* cache, read the datastore and returned None, and the entry is absent.
C24_Witness ==
  /\ last.op = "Get"
  /\ ~last.evicted
  /\ last.prop \in UndeclaredProps
  /\ store[last.key] # NoneV
  /\ last.ret = NoneV
  /\ last.exc = "none"
  /\ Len(last.calls) = 2
  /\ last.calls[2].fn = "get_by_key_name"
  /\ cache[FieldKey(last.key, last.prop)] = Absent

----------------------------------------------------------------------------
(* The drain of a task list that holds a write-through task                 *)

MaxDrainTasks == 2
MaxPending == 3

\* The tasks registered here: a cache refresh of one key, and a
\* MemcacheWrappedSet of a property of it.
DrainTaskInputs ==
  {Task("ResetMemcacheWrap", <<k>>, NoKwargs) : k \in KeyNames}
  \cup {Task("MemcacheWrappedSet", <<k, p, Str("a")>>, NoKwargs) :
          k \in KeyNames, p \in DeclaredProps}

\* getattr(cls, func)(*args, **kwargs) for a task list that may hold
\* MemcacheWrappedSet: its entity.put() calls MemcacheAutoUpdate(), which
\* defers a drain when a task is registered.  nsched: the deferred.defer
\* calls made so far.
CallTask(c, s, tl, nsched, task) ==
  IF task.func = "MemcacheWrappedSet"
    THEN LET r == MemcacheWrappedSet(c, s, tl, nsched, task.args[1],
                                     task.args[2], task.args[3], MEMCACHE_SECS,
                                     [fault |-> "none", accept1 |-> TRUE,
                                      accept2 |-> TRUE])
         IN  [exc |-> r.exc, cache |-> r.cache, store |-> r.store,
              scheduled |-> r.scheduled]
    ELSE LET r == RunTask(c, s, task)
         IN  [exc |-> r.exc, cache |-> r.cache, store |-> r.store,
              scheduled |-> nsched]

RECURSIVE DrainLoop(_, _, _, _, _)
\* The loop of MemcacheAutoUpdate(_deferred=True) from task i on, with the
\* drains its tasks defer.
DrainLoop(c, s, tl, nsched, i) ==
  IF i > Len(tl)
    THEN [exc |-> "none", cache |-> c, store |-> s, scheduled |-> nsched]
    ELSE LET r == CallTask(c, s, tl, nsched, tl[i])
         IN  IF r.exc # "none" THEN r
             ELSE DrainLoop(r.cache, r.store, tl, r.scheduled, i + 1)

\* Module code registers a task:
\* cls.MemcacheAddAutoUpdateTask('MemcacheWrappedSet', key_name, prop, value),
\* or a cache refresh.
RegisterTask ==
  \E t \in DrainTaskInputs :
    LET r == MemcacheAddAutoUpdateTask(tasks, t.func, t.args, t.kwargs)
    IN  /\ Len(tasks) < MaxDrainTasks
        /\ tasks' = r.tasks
        /\ last' = [NoCall EXCEPT !.op = "AddTask", !.exc = r.exc]
        /\ UNCHANGED <<store, cache, scheduled, executed, wtasks, lastDrain, procs>>

\* The task list is empty, nothing is deferred and no drain is running.
InitDrain ==
  /\ store = [k \in KeyNames |-> NoneV]
  /\ cache = [mk \in CacheKeys |-> Absent]
  /\ last = NoCall
  /\ QueueIdle
  /\ procs = [drain |-> "idle"]

\* The task queue takes one deferred MemcacheAutoUpdate(_deferred=True) and
\* calls it.  In this specification scheduled is the number of drains
\* deferred and not yet started, MaxPending standing for that many or more,
\* and one drain runs at a time.
StartDrain ==
  /\ scheduled > 0
  /\ procs.drain = "idle"
  /\ scheduled' = scheduled - 1
  /\ procs' = [procs EXCEPT !.drain = "draining"]
  /\ UNCHANGED <<store, cache, tasks, executed, wtasks, lastDrain, last>>

\* The drain that was started runs its loop over the registered tasks and
\* returns.
RunDrain ==
  /\ procs.drain = "draining"
  /\ \E d \in {DrainLoop(cache, store, tasks, scheduled, 1)} :
       /\ cache' = d.cache
       /\ store' = d.store
       /\ scheduled' = IF d.scheduled < MaxPending THEN d.scheduled
                                                    ELSE MaxPending
       /\ lastDrain' = [n |-> Len(tasks), ran |-> <<>>, calls |-> <<>>,
                         exc |-> d.exc]
  /\ procs' = [procs EXCEPT !.drain = "idle"]
  /\ UNCHANGED <<tasks, executed, wtasks, last>>

NextDrain == RegisterTask \/ DoPut \/ StartDrain \/ RunDrain

\* The task queue starts every deferred drain in the end, and a drain that
\* runs returns.
SpecDrain ==
  InitDrain /\ [][NextDrain]_vars /\ WF_vars(StartDrain) /\ WF_vars(RunDrain)

\* No drain is deferred and waiting to run, and none is running.
Idle == scheduled = 0 /\ procs.drain = "idle"

\* C25 as stated: callers write an entity at most MaxWrites times while a
\* task is registered; after that the queue reaches Idle and stays Idle,
\* also when a registered task is MemcacheWrappedSet.
C25_QueueReturnsToIdle == <>[]Idle

\* No registered task is a write-through operation.
NoWriteThroughTask ==
  \A i \in 1..Len(tasks) : tasks[i].func # "MemcacheWrappedSet"

\* The queue returns to Idle in every run in which no MemcacheWrappedSet is
\* ever registered as a task.
IdleWithoutWriteThrough == []NoWriteThroughTask => <>[]Idle

----------------------------------------------------------------------------
(* ComputerLostStolen: the cached dictionary of lost/stolen UUIDs           *)

LOSTSTOLEN_KEY == "loststolen_uuids"
Uuids == {"u1", "u2", "u3"}
\* The UUIDs for which a Computer entity is stored.
KnownComputers == {"u1", "u2"}

\* A Python dictionary { uuid_str: True }, by its keys.
Dict(keys) == [kind |-> "dict", keys |-> keys]

MaxConnections == 1

\* A ComputerLostStolen entity with the length of its connections list; the
\* timestamps are left out.
LostStolenEntity(uuid, n) == EntityOf(uuid, [uuid |-> Str(uuid), connections |-> n])

\* The key names cls.all(keys_only=True) yields.
StoredUuids(s) == {u \in DOMAIN s : s[u] # NoneV}

\* cls._GetUuids(force_refresh): the cached dictionary, rebuilt from the
\* datastore and cached again when it is missing or empty or when
\* force_refresh is set.
GetUuids(c, s, force_refresh) ==
  LET uuids == MemcacheGet(c, LOSTSTOLEN_KEY)
      empty == IF uuids = NoneV THEN TRUE ELSE uuids.keys = {}
  IN  IF empty \/ force_refresh
        THEN [ret |-> Dict(StoredUuids(s)),
              cache |-> MemcacheSet(c, LOSTSTOLEN_KEY, Dict(StoredUuids(s)))]
        ELSE [ret |-> uuids, cache |-> c]

\* cls.IsLostStolen(uuid)
IsLostStolen(c, s, uuid) ==
  LET g == GetUuids(c, s, FALSE)
  IN  [ret |-> uuid \in g.ret.keys, cache |-> g.cache]

\* cls.SetLostStolen(uuid): nothing when the entity exists; otherwise the
\* entity is created from the Computer of that UUID (AttributeError when
\* there is none) and the dictionary is rebuilt.
SetLostStolen(c, s, uuid) ==
  IF s[uuid] # NoneV THEN [exc |-> "none", cache |-> c, store |-> s]
  ELSE IF uuid \notin KnownComputers
    THEN [exc |-> "AttributeError", cache |-> c, store |-> s]
  ELSE LET s1 == DbPut(s, LostStolenEntity(uuid, 0))
       IN  [exc |-> "none", cache |-> GetUuids(c, s1, TRUE).cache, store |-> s1]

\* cls.LogLostStolenConnection(computer, ip_address): get_or_insert of the
\* computer's UUID, one more entry in its connections, then put(); the cache
\* is not touched.
LogLostStolenConnection(c, s, uuid) ==
  LET n == IF s[uuid] = NoneV THEN 0 ELSE s[uuid].props.connections
  IN  [exc |-> "none", cache |-> c,
       store |-> DbPut(s, LostStolenEntity(uuid, n + 1))]

InitLost ==
  /\ store = [u \in Uuids |-> NoneV]
  /\ cache = [mk \in {LOSTSTOLEN_KEY} |-> Absent]
  /\ last = NoCall
  /\ QueueIdle
  /\ procs = NoProcs

\* An administrator marks a UUID as lost/stolen.
DoSetLostStolen ==
  \E uuid \in Uuids :
    \E r \in {SetLostStolen(cache, store, uuid)} :
      /\ cache' = r.cache
      /\ store' = r.store
      /\ last' = [NoCall EXCEPT !.op = "SetLostStolen", !.key = uuid,
                                !.exc = r.exc]
      /\ UNCHANGED <<tasks, scheduled, executed, wtasks, lastDrain, procs>>

\* A request handler logs a connection of a computer.
DoLogLostStolenConnection ==
  \E uuid \in KnownComputers :
    \E r \in {LogLostStolenConnection(cache, store, uuid)} :
      /\ r.store[uuid].props.connections <= MaxConnections
      /\ cache' = r.cache
      /\ store' = r.store
      /\ last' = [NoCall EXCEPT !.op = "LogLostStolenConnection",
                                !.key = uuid, !.exc = r.exc]
      /\ UNCHANGED <<tasks, scheduled, executed, wtasks, lastDrain, procs>>

\* A request handler asks whether a UUID is lost/stolen.
DoIsLostStolen ==
  \E uuid \in Uuids :
    \E r \in {IsLostStolen(cache, store, uuid)} :
      /\ cache' = r.cache
      /\ last' = [NoCall EXCEPT !.op = "IsLostStolen", !.key = uuid,
                                !.ret = r.ret]
      /\ UNCHANGED <<store, tasks, scheduled, executed, wtasks, lastDrain, procs>>

\* memcache drops the dictionary.
EvictUuids ==
  /\ cache[LOSTSTOLEN_KEY] # Absent
  /\ cache' = [cache EXCEPT ![LOSTSTOLEN_KEY] = Absent]
  /\ UNCHANGED <<store, tasks, scheduled, executed, wtasks, lastDrain, last, procs>>

NextLost ==
  DoSetLostStolen \/ DoLogLostStolenConnection \/ DoIsLostStolen \/ EvictUuids

SpecLost == InitLost /\ [][NextLost]_vars

\* C26 as stated: once SetLostStolen or LogLostStolenConnection has created
\* the ComputerLostStolen entity of key U (nothing else creates one, and none
\* is deleted), IsLostStolen(U) returns True, whatever the cached dictionary
\* held.
C26_LostStolenCacheFresh ==
  (last.op = "IsLostStolen" /\ store[last.key] # NoneV) => last.ret = TRUE

----------------------------------------------------------------------------
(* ResetMemcacheWrap, checked under SpecQueue, and the coherence of the     *)
(* entity-level entries, checked under Spec                                 *)

\* C27 as stated: when ResetMemcacheWrap(K) has completed (here as the last
\* task of a drain), memcache.get finds no entity-level entry for K.
C27_ResetDeletesEntry ==
  LET n == Len(lastDrain.calls)
  IN  (n > 0 /\ lastDrain.exc = "none"
         /\ lastDrain.calls[n].func = "ResetMemcacheWrap")
      => MemcacheGet(cache, EntityKey(lastDrain.calls[n].args[1])) = NoneV

\* Every entity-level entry decodes to the entity the datastore holds for its
\* key, and there is none for a key without an entity.
EntityCoherent(c, s) ==
  \A k \in KeyNames :
    c[EntityKey(k)] # Absent
    => /\ s[k] # NoneV
       /\ Decodable(c[EntityKey(k)].payload)
       /\ Decode(c[EntityKey(k)].payload) = s[k]

\* The step is a MemcacheWrappedSet, MemcacheWrappedGet or
\* MemcacheWrappedDelete during which no datastore or memcache call failed,
\* or the loss of a cache entry.
FaultFreeStep ==
  \/ /\ last'.op \in {"Get", "Set", "Delete"}
     /\ ~last'.evicted
     /\ last'.exc = "none"
     /\ ~last'.refused
  \/ /\ last'.evicted
     /\ store' = store
     /\ \E mk \in CacheKeys : cache' = [cache EXCEPT ![mk] = Absent]

\* C28: the entity-level entries are coherent with the datastore at the start,
\* and every Set, Get or Delete without a failure, and every loss of a cache
\* entry, keeps them so; hence they are after any sequence of such steps.
C28_EntityCoherence ==
  /\ EntityCoherent([mk \in CacheKeys |-> Absent], [k \in KeyNames |-> NoneV])
  /\ [][(EntityCoherent(cache, store) /\ FaultFreeStep)
        => EntityCoherent(cache', store')]_vars

\* A whole-entity Get that decoded the entry a Set of another value had
\* replaced, and returned the stored entity.
C28_Witness ==
  /\ last.op = "Get"
  /\ ~last.evicted
  /\ last.prop = NoProp
  /\ last.prev.op = "Set"
  /\ last.decodes = 1
  /\ last.fails = 0
  /\ last.ret = store[last.key]
  /\ last.ret.props["owner"] = Str("a")
  /\ EntityCoherent(cache, store)
  /\ EntityEntry # Absent

----------------------------------------------------------------------------
(* Two MemcacheWrappedSet calls of different properties of the same key     *)
(* running in two processes, one datastore or memcache call at a time       *)

Writers == {"w1", "w2"}
\* The property each process sets; both set it to RaceVal.
WriterProp == [w \in Writers |-> IF w = "w1" THEN "owner" ELSE "hostname"]

\* The datastore holds some entity of RaceKey or none, nothing is cached, and
\* each process is about to run MemcacheWrappedSet(RaceKey, its property,
\* RaceVal).
InitSets ==
  /\ store \in [KeyNames -> {NoneV} \cup Entities]
  /\ cache = [mk \in CacheKeys |-> Absent]
  /\ last = NoCall
  /\ QueueIdle
  /\ procs = [w \in Writers |-> [at |-> 1, entity |-> NoneV]]

WriterAt(w, step) ==
  /\ procs[w].at <= Len(SetSteps)
  /\ SetSteps[procs[w].at] = step

\* entity = cls.get_or_insert(key_name); setattr(entity, prop_name, value)
WriterGetOrInsert(w) ==
  /\ WriterAt(w, "get_or_insert")
  /\ store' = GetOrInsert(store, RaceKey)
  /\ procs' = [procs EXCEPT ![w].at = @ + 1,
                            ![w].entity = SetAttr(store'[RaceKey], WriterProp[w],
                                                  RaceVal)]
  /\ UNCHANGED <<cache, tasks, scheduled, executed, wtasks, lastDrain, last>>

\* entity.put(): the whole entity this process holds replaces the record.
WriterPut(w) ==
  /\ WriterAt(w, "put")
  /\ LET p == BaseModelPut(store, tasks, scheduled, procs[w].entity, FALSE)
     IN  /\ store' = p.store
         /\ scheduled' = p.scheduled
  /\ procs' = [procs EXCEPT ![w].at = @ + 1]
  /\ UNCHANGED <<cache, tasks, executed, wtasks, lastDrain, last>>

\* memcache.set(memcache_key, value, memcache_secs)
WriterCacheField(w) ==
  /\ WriterAt(w, "set_field")
  /\ cache' = MemcacheSet(cache, FieldKey(RaceKey, WriterProp[w]), RaceVal)
  /\ procs' = [procs EXCEPT ![w].at = @ + 1]
  /\ UNCHANGED <<store, tasks, scheduled, executed, wtasks, lastDrain, last>>

\* memcache.set(memcache_entity_key, entity_protobuf, memcache_secs)
WriterCacheEntity(w) ==
  /\ WriterAt(w, "set_entity")
  /\ cache' = MemcacheSet(cache, EntityKey(RaceKey), Encode(procs[w].entity))
  /\ procs' = [procs EXCEPT ![w].at = @ + 1]
  /\ UNCHANGED <<store, tasks, scheduled, executed, wtasks, lastDrain, last>>

NextSets ==
  \E w \in Writers :
    \/ WriterGetOrInsert(w)
    \/ WriterPut(w)
    \/ WriterCacheField(w)
    \/ WriterCacheEntity(w)

SpecSets == InitSets /\ [][NextSets]_vars

\* Both MemcacheWrappedSet calls have returned.
BothSetsDone == \A w \in Writers : procs[w].at > Len(SetSteps)

\* C29 as stated: when both Sets have returned, the stored entity has both
\* properties at the values set.
C29_NoLostUpdate ==
  BothSetsDone
  => \A w \in Writers : store[RaceKey].props[WriterProp[w]] = RaceVal

\* The Set and the Get of SpecRace have both returned.
RaceDone == procs.set.at > Len(SetSteps) /\ procs.get.pc = "done"

\* C30 as stated: when a concurrent Set and Get of the same key have both
\* returned, a later MemcacheWrappedGet of the entity, and of the property
\* set, returns what the datastore holds: the entries present agree with it.
C30_ConvergesAfterRace ==
  RaceDone
  => \A p \in {NoProp, RaceProp} :
       ObservedGet(cache, store, RaceKey, p) = Output(store[RaceKey], p)

----------------------------------------------------------------------------
(* The task list as a class attribute of several model classes              *)

\* BaseModel and three of the model classes that derive from it:
\* KeyValueCache(BaseModel), ReportsCache(KeyValueCache) and Tag(BaseModel).
Classes == {"BaseModel", "KeyValueCache", "ReportsCache", "Tag"}
\* The classes of which entities are stored; BaseModel is abstract.
EntityClasses == {"KeyValueCache", "ReportsCache", "Tag"}
NoClass == ""
\* The base class of a model class other than BaseModel.
BaseOf(cls) == IF cls = "ReportsCache" THEN "KeyValueCache" ELSE "BaseModel"

MaxRegistrations == 2
MaxTypePending == 1

\* cls.__dict__ holds no '_memcache_auto_update_tasks'.
NoAttr == [kind |-> "noattr"]
\* The list a class holds in its own __dict__.
ListOf(v) == [kind |-> "list", v |-> v]

\* A registered task with the class MemcacheAddAutoUpdateTask was called on.
\* The tuple the code appends is (func, args, kwargs); on is kept beside it
\* to tell the registrations apart.
TaskOn(cls, func, args, kwargs) ==
  [func |-> func, args |-> args, kwargs |-> kwargs, on |-> cls]

RECURSIVE DefiningClass(_, _)
\* Attribute lookup on a class: the first class, from cls up through its
\* bases, whose __dict__ holds '_memcache_auto_update_tasks'; NoClass when
\* none does.
DefiningClass(tl, cls) ==
  IF tl[cls] # NoAttr THEN cls
  ELSE IF cls = "BaseModel" THEN NoClass
  ELSE DefiningClass(tl, BaseOf(cls))

\* hasattr(cls, '_memcache_auto_update_tasks')
HasTaskList(tl, cls) == DefiningClass(tl, cls) # NoClass
\* getattr(cls, '_memcache_auto_update_tasks', []), as a sequence.
GetTaskList(tl, cls) ==
  IF HasTaskList(tl, cls) THEN tl[DefiningClass(tl, cls)].v ELSE <<>>

\* cls.MemcacheAddAutoUpdateTask(func, *args, **kwargs) on the lists of all
\* classes: a new list is set on cls only when lookup finds none, and the
\* task is appended to the list lookup finds.
AddTaskOn(tl, cls, func, args, kwargs) ==
  IF func \notin ClassMethods
    THEN [exc |-> "ValueError", tasks |-> tl]
    ELSE LET tl1 == IF HasTaskList(tl, cls) THEN tl
                    ELSE [tl EXCEPT ![cls] = ListOf(<<>>)]
             d == DefiningClass(tl1, cls)
         IN  [exc |-> "none",
              tasks |-> [tl1 EXCEPT ![d] =
                           ListOf(Append(@.v, TaskOn(cls, func, args, kwargs)))]]

\* The datastore key of an entity: its kind and key name.
TypedName(cls, key_name) == cls \o "/" \o key_name
\* The entity-level cache key of cls, cls.kind() being the class name.
TypedEntityKey(cls, key_name) == "mwg_" \o cls \o "_" \o key_name
\* An instance of cls; its properties are left out.
InstanceOf(cls, key_name) == [kind |-> "entity", cls |-> cls, key |-> key_name]

\* cls.MemcacheAutoUpdate() as put() calls it: the number of drains deferred
\* for cls afterwards.
AutoUpdateScheduleOn(tl, cls, nsched) ==
  IF GetTaskList(tl, cls) = <<>> THEN nsched ELSE nsched + 1

RECURSIVE DrainOn(_, _, _, _, _)
\* The loop of cls.MemcacheAutoUpdate(_deferred=True) from task i on:
\* getattr(cls, func)(*args, **kwargs) for each task of the list lookup
\* finds.  The tasks here are ResetMemcacheWrap(key_name).
DrainOn(c, s, tl, cls, i) ==
  LET list == GetTaskList(tl, cls)
  IN  IF i > Len(list) THEN c
      ELSE DrainOn(MemcacheSet(c, TypedEntityKey(cls, list[i].args[1]),
                               GetByKeyName(s, TypedName(cls, list[i].args[1]))),
                   s, tl, cls, i + 1)

\* The number of tasks held in all the lists.
RECURSIVE Registered(_, _)
Registered(tl, S) ==
  IF S = {} THEN 0
  ELSE LET cls == CHOOSE x \in S : TRUE
       IN  (IF tl[cls] = NoAttr THEN 0 ELSE Len(tl[cls].v))
           + Registered(tl, S \ {cls})

NoTypeCall == [op |-> "none", cls |-> NoClass, exc |-> "none", deferred |-> FALSE]
NoTypeDrain == [cls |-> NoClass, calls |-> <<>>]

InitTypes ==
  /\ store = [n \in {TypedName(cls, k) : cls \in EntityClasses, k \in KeyNames}
                |-> NoneV]
  /\ cache = [mk \in {TypedEntityKey(cls, k) : cls \in EntityClasses,
                                               k \in KeyNames} |-> Absent]
  /\ tasks = [cls \in Classes |-> NoAttr]
  /\ scheduled = [cls \in Classes |-> 0]
  /\ executed = 0
  /\ wtasks = 0
  /\ lastDrain = NoTypeDrain
  /\ last = NoTypeCall
  /\ procs = NoProcs

\* Module code calls cls.MemcacheAddAutoUpdateTask('ResetMemcacheWrap', k)
\* on one of the entity classes, or names a function the class does not have.
RegisterOn ==
  \E cls \in EntityClasses, k \in KeyNames,
     func \in {"ResetMemcacheWrap", "no_such_method"} :
    \E r \in {AddTaskOn(tasks, cls, func, <<k>>, NoKwargs)} :
      /\ Registered(tasks, Classes) < MaxRegistrations
      /\ tasks' = r.tasks
      /\ last' = [op |-> "AddTask", cls |-> cls, exc |-> r.exc,
                  deferred |-> FALSE]
      /\ UNCHANGED <<store, cache, scheduled, executed, wtasks, lastDrain,
                     procs>>

\* A request handler saves an entity of cls: the datastore put, then
\* cls.MemcacheAutoUpdate().
PutOf ==
  \E cls \in EntityClasses, k \in KeyNames :
    \E n \in {AutoUpdateScheduleOn(tasks, cls, scheduled[cls])} :
      /\ n <= MaxTypePending
      /\ store' = [store EXCEPT ![TypedName(cls, k)] = InstanceOf(cls, k)]
      /\ scheduled' = [scheduled EXCEPT ![cls] = n]
      /\ last' = [op |-> "put", cls |-> cls, exc |-> "none",
                  deferred |-> n > scheduled[cls]]
      /\ UNCHANGED <<cache, tasks, executed, wtasks, lastDrain, procs>>

\* The task queue runs one deferred cls.MemcacheAutoUpdate(_deferred=True).
DrainOf ==
  \E cls \in EntityClasses :
    /\ scheduled[cls] > 0
    /\ scheduled' = [scheduled EXCEPT ![cls] = @ - 1]
    /\ cache' = DrainOn(cache, store, tasks, cls, 1)
    /\ lastDrain' = [cls |-> cls, calls |-> GetTaskList(tasks, cls)]
    /\ UNCHANGED <<store, tasks, executed, wtasks, last, procs>>

NextTypes == RegisterOn \/ PutOf \/ DrainOf

SpecTypes == InitTypes /\ [][NextTypes]_vars

\* C31 as stated: per-type isolation of the task registry.  A task registered
\* on a class is held in that class's own list and in no other class's list;
\* a drain of a class calls only tasks registered on that class; and a put
\* of an entity defers a drain only of tasks registered on the entity's class.
C31_PerTypeIsolation ==
  /\ \A cls \in Classes :
       tasks[cls] # NoAttr
         => \A i \in 1..Len(tasks[cls].v) : tasks[cls].v[i].on = cls
  /\ (last.op = "AddTask" /\ last.exc = "none") => tasks[last.cls] # NoAttr
  /\ \A i \in 1..Len(lastDrain.calls) : lastDrain.calls[i].on = lastDrain.cls
  /\ (last.op = "put" /\ last.deferred)
       => \A i \in 1..Len(GetTaskList(tasks, last.cls)) :
            GetTaskList(tasks, last.cls)[i].on = last.cls

----------------------------------------------------------------------------
(* Field-level cache keys of one class with several key names               *)

ProductCacheKeys ==
  {EntityKey(k) : k \in ProductKeys}
  \cup {FieldKey(k, p) : k \in ProductKeys, p \in ProductProps}

InitKeys ==
  /\ store = [k \in ProductKeys |-> NoneV]
  /\ cache = [mk \in ProductCacheKeys |-> Absent]
  /\ last = NoCall
  /\ QueueIdle
  /\ procs = NoProcs

\* A request handler calls AppleSUSProduct.MemcacheWrappedSet(key_name,
\* prop_name, value); every call it makes succeeds.
ProductSet ==
  \E k \in ProductKeys, p \in ProductProps, v \in Values :
    \E r \in {MemcacheWrappedSet(cache, store, tasks, scheduled, k, p, v,
                                 MEMCACHE_SECS,
                                 [fault |-> "none", accept1 |-> TRUE,
                                  accept2 |-> TRUE])} :
      /\ cache' = r.cache
      /\ store' = r.store
      /\ scheduled' = r.scheduled
      /\ last' = Call("Set", k, p, v, MEMCACHE_SECS, r)
      /\ UNCHANGED <<tasks, executed, wtasks, lastDrain, procs>>

\* A request handler calls AppleSUSProduct.MemcacheWrappedGet(key_name,
\* prop_name=prop_name).
ProductGet ==
  \E k \in ProductKeys, p \in ProductProps :
    \E r \in {MemcacheWrappedGet(cache, store, k, p, MEMCACHE_SECS, FALSE,
                                 [accept |-> TRUE, recorrupt |-> 0])} :
      /\ cache' = r.cache
      /\ last' = Call("Get", k, p, NoneV, MEMCACHE_SECS, r)
      /\ UNCHANGED <<store, tasks, scheduled, executed, wtasks, lastDrain,
                     procs>>

\* memcache drops an entry.
ProductEvict ==
  \E mk \in ProductCacheKeys :
    /\ cache[mk] # Absent
    /\ cache' = [cache EXCEPT ![mk] = Absent]
    /\ last' = [last EXCEPT !.evicted = TRUE]
    /\ UNCHANGED <<store, tasks, scheduled, executed, wtasks, lastDrain, procs>>

NextKeys == ProductSet \/ ProductGet \/ ProductEvict

SpecKeys == InitKeys /\ [][NextKeys]_vars

\* C32 as stated: field-level cache keys are injective within an entity
\* type, so a MemcacheWrappedGet(K, prop_name=F) that returns gives the value
\* of field F of the entity stored under K (None when there is none), never
\* a value cached for another key name or another field.
C32_FieldKeysInjective ==
  (last.op = "Get" /\ last.exc = "none")
    => last.ret = Output(store[last.key], last.prop)

====
